---- MODULE Spec2Model ----
(***************************************************************************)
(* FlickFusion access gate: the membership cache (forcejoin.py), the       *)
(* verification ledger (verification.py), the peewee User model they both  *)
(* persist through (database.py) and the gated /start handler (main.py).   *)
(*                                                                         *)
(* Time is the wall clock in whole seconds.  A handler runs at one clock   *)
(* reading: every datetime.now() it makes returns `now`.                   *)
(***************************************************************************)
EXTENDS Integers, FiniteSets, Sequences, TLC

\* ---------------------------------------------------------------- bounds
\* Supply of distinct tokens generate_token() hands out in one behaviour.
MaxTokens == 2
\* Number of /broadcast commands in one behaviour.
MaxCommands == 2
\* Rows in the user table when a long broadcast is dispatched.
CadenceRecipients == 45
\* send_broadcast tasks created in one behaviour.
MaxTasks == 1

\* ------------------------------------------------------ program constants
\* forcejoin.py:150  cached positive result is trusted for < 600 s
MEMBERSHIP_TTL == 600
\* verification.py:139  token older than 3600 s is refused
TOKEN_EXPIRY == 3600
\* verification.py:144  timedelta(hours=24)
GRANT_WINDOW == 86400
\* main.py:358  the progress message is edited every 20 recipients
PROGRESS_EVERY == 20
\* main.py:154  timedelta(days=1), the age from which the sweep re-probes
SWEEP_AGE == 86400

\* config.py:10  ADMIN_IDS; user 1 is the configured admin, user 2 is not.
ADMIN_IDS == {1}
UserIds == {1, 2}
\* config.py:47  REQUIRED_CHANNELS, two configured channels.
REQUIRED_CHANNELS == {1, 2}

\* Clock readings the model visits: the cache TTL and the token expiry (one
\* second before, at, one second after), measured from 0.
Instants ==
    {0, MEMBERSHIP_TTL, TOKEN_EXPIRY - 1, TOKEN_EXPIRY, TOKEN_EXPIRY + 1}

\* Python None in a nullable column or attribute.
None == -1
\* generate_token() results; string tokens a caller may send.
Tokens == 1..MaxTokens
\* A token string no generate_token() call returned.
ForgedToken == MaxTokens + 1

\* ------------------------------------------------------------ peewee layer
\* Mutant: class User also declares the three verification columns.
UserFieldsMigrated ==
    {"first_name", "is_member", "last_checked",
     "verification_token", "token_created_at", "verified_until"}

\* database.py:49-56  the fields class User declares.  username, last_name
\* and joined_date are declared too; username and last_name are written
\* where first_name is and stand with it, joined_date is never written
\* again, and they are left out of the rows.
UserFields == {"first_name", "is_member", "last_checked"}

\* Names are numbered.  DefaultName is the text "User" a row gets when its
\* creator has no name for it (forcejoin.py:108, verification.py:63); Names
\* are the first names a messaging account may carry.
DefaultName == 0
Names == {1, 2}

\* update.effective_user.first_name in the handlers of a specification that
\* does not follow renames: every account keeps one name, and the name is
\* the text "User".
FirstName(u) == DefaultName

\* Column default of a declared field (database.py:54-55; a nullable column
\* holds NULL).
FieldDefault(f, t) ==
    CASE f = "is_member" -> FALSE
      [] f = "last_checked" -> t
      [] OTHER -> None

\* Model.__init__: every keyword becomes an attribute of the instance,
\* declared field or not.  An instance is a function attribute -> value.
SetAttrs(inst, kw) ==
    [a \in (DOMAIN inst) \cup (DOMAIN kw) |->
        IF a \in DOMAIN kw THEN kw[a] ELSE inst[a]]

\* Model.save() / Model.create(): the row holds the declared fields only.
Row(inst) == [f \in UserFields |-> inst[f]]

\* User.create(**kw) at time t: defaults, overlaid by kw, then INSERT.
UserCreate(db, u, kw, t) ==
    LET inst == SetAttrs([f \in UserFields |-> FieldDefault(f, t)], kw)
    IN  [v \in (DOMAIN db) \cup {u} |-> IF v = u THEN Row(inst) ELSE db[v]]

\* user.save(): UPDATE of the row of u with the declared fields of inst.
UserSave(db, u, inst) == [db EXCEPT ![u] = Row(inst)]

\* getattr on a loaded instance: AttributeError when the class declares no
\* such field.
HasAttr(inst, a) == a \in DOMAIN inst

\* ------------------------------------------------------------ forcejoin.py
\* check_user_membership: one get_chat_member query per configured channel.
\* member_of is what the gateway would answer, err the channels whose query
\* raises; a query that raises counts as not joined.
check_user_membership(member_of, err) ==
    LET ch == [c \in REQUIRED_CHANNELS |-> c \in member_of /\ c \notin err]
    IN  [is_member_of_all |-> \A c \in REQUIRED_CHANNELS : ch[c],
         channels |-> ch,
         failed |-> err \cap REQUIRED_CHANNELS]

\* The attributes update_user_membership sets: is_member and last_checked as
\* given, first_name the caller's, or old when the caller has none
\* (forcejoin.py:98-103, 107-111).
MembershipAttrs(is_member, checked, old, first_name) ==
    [first_name |-> IF first_name # None THEN first_name ELSE old,
     is_member |-> is_member,
     last_checked |-> checked]

\* Mutant: an existing row keeps its old last_checked.
update_user_membership_keep_time(db, u, is_member, first_name, t) ==
    IF u \in DOMAIN db
    THEN UserSave(db, u,
            SetAttrs(db[u], MembershipAttrs(is_member, db[u]["last_checked"],
                                            db[u]["first_name"], first_name)))
    ELSE UserCreate(db, u,
            MembershipAttrs(is_member, t, DefaultName, first_name),
            t)

\* Mutant: only a positive aggregate is persisted; a negative one leaves the
\* table as it was.
update_user_membership_only_true(db, u, is_member, first_name, t) ==
    IF ~is_member THEN db
    ELSE IF u \in DOMAIN db
    THEN UserSave(db, u,
            SetAttrs(db[u], MembershipAttrs(is_member, t,
                                            db[u]["first_name"], first_name)))
    ELSE UserCreate(db, u,
            MembershipAttrs(is_member, t, DefaultName, first_name),
            t)

\* update_user_membership, after its probe returned is_member
\* (forcejoin.py:95-112): the row of u gets is_member, last_checked = now
\* and the caller's first name when it has one, or is created with them
\* (with "User" for a missing name).
update_user_membership(db, u, is_member, first_name, t) ==
    IF u \in DOMAIN db
    THEN UserSave(db, u,
            SetAttrs(db[u], MembershipAttrs(is_member, t,
                                            db[u]["first_name"], first_name)))
    ELSE UserCreate(db, u,
            MembershipAttrs(is_member, t, DefaultName, first_name),
            t)

\* The cache test of force_join (forcejoin.py:146-151).
CachedMember(db, u, t) ==
    /\ u \in DOMAIN db
    /\ db[u]["is_member"]
    /\ t - db[u]["last_checked"] < MEMBERSHIP_TTL

\* Mutant: the cache test trusts a positive result up to and including the
\* TTL (<= 600 instead of < 600).
force_join_ttl_inclusive(db, u, member_of, err1, err2, t) ==
    IF u \in ADMIN_IDS
    THEN [ret |-> TRUE, db |-> db, stage |-> "bypass", probes |-> 0,
          prompted |-> {}, failed |-> {}]
    ELSE IF /\ u \in DOMAIN db
            /\ db[u]["is_member"]
            /\ t - db[u]["last_checked"] <= MEMBERSHIP_TTL
    THEN [ret |-> TRUE, db |-> db, stage |-> "cached", probes |-> 0,
          prompted |-> {}, failed |-> {}]
    ELSE
      LET r1 == check_user_membership(member_of, err1)
          db1 == update_user_membership(db, u, r1.is_member_of_all,
                                        FirstName(u), t)
          r2 == check_user_membership(member_of, err2)
      IN  IF r1.is_member_of_all
          THEN [ret |-> TRUE, db |-> db1, stage |-> "probed",
                probes |-> Cardinality(REQUIRED_CHANNELS), prompted |-> {},
                failed |-> {}]
          ELSE [ret |-> FALSE, db |-> db1, stage |-> "denied",
                probes |-> 2 * Cardinality(REQUIRED_CHANNELS),
                prompted |-> {c \in REQUIRED_CHANNELS : ~r2.channels[c]},
                failed |-> r2.failed]

\* Mutant: a denial prompts for every configured channel, joined or not.
force_join_prompt_all(db, u, member_of, err1, err2, t) ==
    IF u \in ADMIN_IDS
    THEN [ret |-> TRUE, db |-> db, stage |-> "bypass", probes |-> 0,
          prompted |-> {}, failed |-> {}]
    ELSE IF CachedMember(db, u, t)
    THEN [ret |-> TRUE, db |-> db, stage |-> "cached", probes |-> 0,
          prompted |-> {}, failed |-> {}]
    ELSE
      LET r1 == check_user_membership(member_of, err1)
          db1 == update_user_membership(db, u, r1.is_member_of_all,
                                        FirstName(u), t)
          r2 == check_user_membership(member_of, err2)
      IN  IF r1.is_member_of_all
          THEN [ret |-> TRUE, db |-> db1, stage |-> "probed",
                probes |-> Cardinality(REQUIRED_CHANNELS), prompted |-> {},
                failed |-> {}]
          ELSE [ret |-> FALSE, db |-> db1, stage |-> "denied",
                probes |-> 2 * Cardinality(REQUIRED_CHANNELS),
                prompted |-> REQUIRED_CHANNELS,
                failed |-> r2.failed]

\* force_join: admin bypass, cache test, else probe + persist; on a negative
\* aggregate a second probe picks the channels to prompt for.
force_join(db, u, member_of, err1, err2, t) ==
    IF u \in ADMIN_IDS
    THEN [ret |-> TRUE, db |-> db, stage |-> "bypass", probes |-> 0,
          prompted |-> {}, failed |-> {}]
    ELSE IF CachedMember(db, u, t)
    THEN [ret |-> TRUE, db |-> db, stage |-> "cached", probes |-> 0,
          prompted |-> {}, failed |-> {}]
    ELSE
      LET r1 == check_user_membership(member_of, err1)
          db1 == update_user_membership(db, u, r1.is_member_of_all,
                                        FirstName(u), t)
          r2 == check_user_membership(member_of, err2)
      IN  IF r1.is_member_of_all
          THEN [ret |-> TRUE, db |-> db1, stage |-> "probed",
                probes |-> Cardinality(REQUIRED_CHANNELS), prompted |-> {},
                failed |-> {}]
          ELSE [ret |-> FALSE, db |-> db1, stage |-> "denied",
                probes |-> 2 * Cardinality(REQUIRED_CHANNELS),
                prompted |-> {c \in REQUIRED_CHANNELS : ~r2.channels[c]},
                failed |-> r2.failed]

\* --------------------------------------------------------- verification.py
\* create_verification_link with token = generate_token(); api is the
\* provider's answer ("ok" or anything else: missing credential, exception,
\* non-success status).  The token and its time are set on the instance and
\* the instance is saved, or a row is created with them as keywords.
create_verification_link(db, u, api, token, t) ==
    LET kw == [a \in {"verification_token", "token_created_at"} |->
                  IF a = "verification_token" THEN token ELSE t]
        named == [a \in {"first_name"} |-> DefaultName]
    IN  IF api # "ok"
        THEN [url |-> FALSE, token |-> None, db |-> db]
        ELSE [url |-> TRUE, token |-> token,
              db |-> IF u \in DOMAIN db
                     THEN UserSave(db, u, SetAttrs(db[u], kw))
                     ELSE UserCreate(db, u, SetAttrs(named, kw), t)]

\* is_user_verified (verification.py:85-117): ret is the value returned,
\* raised says that an exception left the function instead.  For an admin
\* the return at 89-90 comes before need_to_close is bound (93), and the
\* finally clause (114-117) reads need_to_close: UnboundLocalError replaces
\* the return.  Any exception in the try (an attribute the instance lacks
\* included) is caught and answered False.
is_user_verified(db, u, t) ==
    IF u \in ADMIN_IDS THEN [raised |-> TRUE, ret |-> FALSE]
    ELSE [raised |-> FALSE,
          ret |-> IF u \notin DOMAIN db THEN FALSE
                  ELSE IF ~HasAttr(db[u], "verified_until") THEN FALSE
                  ELSE IF db[u]["verified_until"] = None THEN FALSE
                  ELSE t < db[u]["verified_until"]]

\* Mutant: User.get_or_create instead of User.get, a missing row is inserted.
verify_token_get_or_create(db, u, token, t) ==
    IF u \in DOMAIN db THEN [ok |-> FALSE, db |-> db]
    ELSE [ok |-> FALSE,
          db |-> UserCreate(db, u, [a \in {} |-> None], t)]

\* Mutant: getattr(user, ..., default) with a default that passes both
\* tests when the attribute is missing.
verify_token_getattr(db, u, token, t) ==
    IF u \in DOMAIN db /\ ~HasAttr(db[u], "verification_token")
    THEN [ok |-> TRUE,
          db |-> UserSave(db, u,
                    SetAttrs(db[u], [a \in {"verified_until"} |->
                                        t + GRANT_WINDOW]))]
    ELSE [ok |-> FALSE, db |-> db]

\* Mutant: the token sent is not compared with the stored one.
verify_token_any_token(db, u, token, t) ==
    IF u \notin DOMAIN db THEN [ok |-> FALSE, db |-> db]
    ELSE IF ~HasAttr(db[u], "verification_token") THEN [ok |-> FALSE, db |-> db]
    ELSE IF ~HasAttr(db[u], "token_created_at") THEN [ok |-> FALSE, db |-> db]
    ELSE IF /\ db[u]["token_created_at"] # None
            /\ t - db[u]["token_created_at"] > TOKEN_EXPIRY
         THEN [ok |-> FALSE, db |-> db]
    ELSE [ok |-> TRUE,
          db |-> UserSave(db, u,
                    SetAttrs(db[u], [a \in {"verified_until"} |->
                                        t + GRANT_WINDOW]))]

\* verify_token: no row, AttributeError, token mismatch and a token older
\* than TOKEN_EXPIRY return False before any write; otherwise verified_until
\* is set to now + 24 h and the instance saved.  The token is left as it is.
verify_token(db, u, token, t) ==
    IF u \notin DOMAIN db THEN [ok |-> FALSE, db |-> db]
    ELSE IF ~HasAttr(db[u], "verification_token") THEN [ok |-> FALSE, db |-> db]
    ELSE IF db[u]["verification_token"] # token THEN [ok |-> FALSE, db |-> db]
    ELSE IF ~HasAttr(db[u], "token_created_at") THEN [ok |-> FALSE, db |-> db]
    ELSE IF /\ db[u]["token_created_at"] # None
            /\ t - db[u]["token_created_at"] > TOKEN_EXPIRY
         THEN [ok |-> FALSE, db |-> db]
    ELSE [ok |-> TRUE,
          db |-> UserSave(db, u,
                    SetAttrs(db[u], [a \in {"verified_until"} |->
                                        t + GRANT_WINDOW]))]

\* What get_verification_status returns when nobody is verified.
Unverified ==
    [raised |-> FALSE, is_verified |-> FALSE, admin_override |-> FALSE,
     time_remaining |-> None]

\* get_verification_status (verification.py:162-216): the dictionary
\* returned, and raised for an exception that left the function instead.
\* For an admin the return at 166-171 comes before need_to_close is bound
\* (174), and the finally clause (213-216) reads need_to_close:
\* UnboundLocalError replaces the return.  The AttributeError on
\* verified_until is caught at 204 and answered unverified.
get_verification_status(db, u, t) ==
    IF u \in ADMIN_IDS THEN [Unverified EXCEPT !.raised = TRUE]
    ELSE IF u \notin DOMAIN db THEN Unverified
    ELSE IF ~HasAttr(db[u], "verified_until") THEN Unverified
    ELSE IF db[u]["verified_until"] # None /\ t < db[u]["verified_until"]
    THEN [Unverified EXCEPT !.is_verified = TRUE,
                            !.time_remaining = db[u]["verified_until"] - t]
    ELSE Unverified

\* ------------------------------------------------- forcejoin.py, the gate
\* Mutant: the wrapper without its verification stage.
require_membership_noverify(db, u, member_of, err1, err2, api, token, t) ==
    LET fj == force_join(db, u, member_of, err1, err2, t)
    IN  [run |-> fj.ret, db |-> fj.db, stage |-> fj.stage,
         probes |-> fj.probes, prompted |-> fj.prompted,
         failed |-> fj.failed, issued |-> None,
         shown |-> IF fj.ret THEN "none" ELSE "join"]

\* Mutant: the wrapper probes and persists for every caller, admin or not,
\* cached or not.
require_membership_probe_all(db, u, member_of, err1, err2, api, token, t) ==
    LET r1 == check_user_membership(member_of, err1)
        r2 == check_user_membership(member_of, err2)
        db1 == update_user_membership(db, u, r1.is_member_of_all,
                                      FirstName(u), t)
        cl == create_verification_link(db1, u, api, token, t)
    IN  IF ~r1.is_member_of_all
        THEN [run |-> FALSE, db |-> db1, stage |-> "denied",
              probes |-> 2 * Cardinality(REQUIRED_CHANNELS),
              prompted |-> {c \in REQUIRED_CHANNELS : ~r2.channels[c]},
              failed |-> r2.failed,
              issued |-> None, shown |-> "join"]
        ELSE IF ~is_user_verified(db1, u, t).ret
        THEN [run |-> FALSE, db |-> cl.db, stage |-> "probed",
              probes |-> Cardinality(REQUIRED_CHANNELS), prompted |-> {},
              issued |-> cl.token,
              shown |-> IF cl.url THEN "link" ELSE "link_error"]
        ELSE [run |-> TRUE, db |-> db1, stage |-> "probed",
              probes |-> Cardinality(REQUIRED_CHANNELS), prompted |-> {},
              issued |-> None, shown |-> "none"]

\* Mutant: the two stages in the other order, verification first.
require_membership_verify_first(db, u, member_of, err1, err2, api, token, t) ==
    IF u \in ADMIN_IDS
    THEN [run |-> TRUE, db |-> db, stage |-> "bypass", probes |-> 0,
          prompted |-> {}, issued |-> None, shown |-> "none"]
    ELSE
      LET cl == create_verification_link(db, u, api, token, t)
          dbv == IF is_user_verified(db, u, t).ret THEN db ELSE cl.db
          tok == IF is_user_verified(db, u, t).ret THEN None ELSE cl.token
          fj == force_join(dbv, u, member_of, err1, err2, t)
      IN  IF ~fj.ret
          THEN [run |-> FALSE, db |-> fj.db, stage |-> fj.stage,
                probes |-> fj.probes, prompted |-> fj.prompted, failed |-> fj.failed,
                issued |-> tok, shown |-> "join"]
          ELSE IF ~is_user_verified(db, u, t).ret
          THEN [run |-> FALSE, db |-> fj.db, stage |-> fj.stage,
                probes |-> fj.probes, prompted |-> {}, issued |-> tok,
                shown |-> IF cl.url THEN "link" ELSE "link_error"]
          ELSE [run |-> TRUE, db |-> fj.db, stage |-> fj.stage,
                probes |-> fj.probes, prompted |-> {}, issued |-> None,
                shown |-> "none"]

\* Mutant: a link that could not be made lets the caller through.
require_membership_link_error_runs(db, u, member_of, err1, err2, api, token, t) ==
    IF u \in ADMIN_IDS
    THEN [run |-> TRUE, db |-> db, stage |-> "bypass", probes |-> 0,
          prompted |-> {}, issued |-> None, shown |-> "none"]
    ELSE
      LET fj == force_join(db, u, member_of, err1, err2, t)
          cl == create_verification_link(fj.db, u, api, token, t)
      IN  IF ~fj.ret
          THEN [run |-> FALSE, db |-> fj.db, stage |-> fj.stage,
                probes |-> fj.probes, prompted |-> fj.prompted, failed |-> fj.failed,
                issued |-> None, shown |-> "join"]
          ELSE IF ~is_user_verified(fj.db, u, t).ret
          THEN [run |-> ~cl.url, db |-> cl.db, stage |-> fj.stage,
                probes |-> fj.probes, prompted |-> {},
                issued |-> cl.token,
                shown |-> IF cl.url THEN "link" ELSE "none"]
          ELSE [run |-> TRUE, db |-> fj.db, stage |-> fj.stage,
                probes |-> fj.probes, prompted |-> {}, issued |-> None,
                shown |-> "none"]

\* require_membership's wrapper up to the call of the wrapped function:
\* run says whether the wrapped function is called, and with which table.
require_membership(db, u, member_of, err1, err2, api, token, t) ==
    IF u \in ADMIN_IDS
    THEN [run |-> TRUE, db |-> db, stage |-> "bypass", probes |-> 0,
          prompted |-> {}, issued |-> None, shown |-> "none"]
    ELSE
      LET fj == force_join(db, u, member_of, err1, err2, t)
          cl == create_verification_link(fj.db, u, api, token, t)
      IN  IF ~fj.ret
          THEN [run |-> FALSE, db |-> fj.db, stage |-> fj.stage,
                probes |-> fj.probes, prompted |-> fj.prompted, failed |-> fj.failed,
                issued |-> None, shown |-> "join"]
          ELSE IF ~is_user_verified(fj.db, u, t).ret
          THEN [run |-> FALSE, db |-> cl.db, stage |-> fj.stage,
                probes |-> fj.probes, prompted |-> {},
                issued |-> cl.token,
                shown |-> IF cl.url THEN "link" ELSE "link_error"]
          ELSE [run |-> TRUE, db |-> fj.db, stage |-> fj.stage,
                probes |-> fj.probes, prompted |-> {}, issued |-> None,
                shown |-> "none"]

\* ------------------------------------------------------------------ main.py
\* The /start argument: none, or verify_<token>_<uid>.
NoArg == [token |-> None, uid |-> 0]

\* Mutant: a redemption for a user without a row is answered with a text of
\* its own.
start_tells_cause(db, u, arg, t) ==
    IF arg = NoArg
    THEN [db |-> db, shown |-> "welcome", redeem |-> "none"]
    ELSE IF arg.uid # u
    THEN [db |-> db, shown |-> "other_user", redeem |-> "none"]
    ELSE LET v == verify_token(db, u, arg.token, t)
         IN  [db |-> v.db,
              shown |-> IF v.ok THEN "verified"
                        ELSE IF u \notin DOMAIN db THEN "no_record"
                        ELSE "verify_failed",
              redeem |-> IF v.ok THEN "ok" ELSE "fail"]

\* The body of start (main.py:33-112), run once the gate lets it through.
start(db, u, arg, t) ==
    IF arg = NoArg
    THEN [db |-> db, shown |-> "welcome", redeem |-> "none"]
    ELSE IF arg.uid # u
    THEN [db |-> db, shown |-> "other_user", redeem |-> "none"]
    ELSE LET v == verify_token(db, u, arg.token, t)
         IN  [db |-> v.db,
              shown |-> IF v.ok THEN "verified" ELSE "verify_failed",
              redeem |-> IF v.ok THEN "ok" ELSE "fail"]

VARIABLES
    now,      \* wall clock, seconds
    users,    \* the user table: user_id -> row, for the ids that have a row
    joined,   \* messaging gateway: the channels each user is a member of
    tokenCtr, \* number of generate_token() calls so far
    link,     \* per user, the token of the last verification link shown and when
    tries,    \* per user, verify_token calls made with link[u].token (up to 2)
    wins,     \* per user, those of them that returned True (up to 2)
    last,     \* what the last handler did and showed
    probe,    \* one run of check_user_membership, query by query
    sweep,    \* the run of the periodic job check_all_memberships
    user_data,\* per user, context.user_data["broadcast_info"] (or NoJob)
    prompts,  \* the confirmation prompts broadcast_command has sent
    run,      \* the dispatch loop of broadcast_callback since the last
              \* /broadcast of an admin
    conv,     \* broadcast.py: per user, conversation state and user_data
    tasks     \* broadcast.py: the send_broadcast tasks created so far

gateVars == <<now, users, joined, tokenCtr, link, tries, wins, last>>
probeVars == <<probe, sweep>>
bcastVars == <<user_data, prompts, run, conv, tasks>>
vars == <<gateVars, probeVars, bcastVars>>

NoLink == [token |-> None, at |-> None]

Quiet ==
    [op |-> "init", user |-> 0, executed |-> FALSE, stage |-> "none",
     probes |-> 0, prompted |-> {}, failed |-> {}, issued |-> None,
     shown |-> "none", follows |-> FALSE, redeem |-> "none", token |-> None]

\* No check_user_membership call has been followed yet.
NoProbe ==
    [pc |-> "idle", user |-> 0, answers |-> <<>>, i |-> 0, queried |-> <<>>,
     channels |-> <<>>, is_member_of_all |-> TRUE]

\* check_all_memberships has not run yet.  todo is what is left of the rows
\* the query returned, selected the ids it returned; at_start and started
\* keep the last_checked column and the clock of the start of the run; probed
\* lists the users check_user_membership was called for, result what it
\* returned for each, faults the users whose iteration raised; ok says the
\* query returned.  While the run waits for the gateway (pc "loop") the
\* head of todo is the row it waits for and inst the instance loaded from
\* it; cut says that the connection of the query was closed since, aborted
\* that the request for a next row raised.
NoSweep ==
    [pc |-> "idle", todo |-> <<>>, selected |-> {}, at_start |-> <<>>,
     started |-> 0, probed |-> <<>>, result |-> <<>>, faults |-> {},
     count |-> 0, ok |-> FALSE, inst |-> <<>>, cut |-> FALSE,
     aborted |-> FALSE]

\* context.user_data without a "broadcast_info" key.
NoJob == [content |-> None, users |-> <<>>, buttons |-> None, media |-> None]

\* No broadcast_callback has started a dispatch yet.  edits counts the edits
\* of the progress message that went through, timed those of them made
\* only because 5 s had passed.  slept tells whether asyncio.sleep(0.05)
\* ran since the last send attempt, rushed holds the positions in attempts
\* of the sends made with no sleep since the send before them.
NoRun ==
    [pc |-> "idle", by |-> 0, users |-> <<>>, total |-> 0, i |-> 0,
     successful |-> 0, failed |-> 0, attempts |-> <<>>, raised |-> {},
     summaries |-> 0, summary |-> <<>>, edits |-> 0, timed |-> 0,
     slept |-> FALSE, rushed |-> {}]

\* broadcast.py: no conversation, and none of the user_data keys set (the
\* type, a string, is "none" when its key is absent).
NoConv ==
    [state |-> "END", type |-> "none", message |-> None, media |-> None,
     caption |-> None]

\* The state after construction but for the user table, which is kept by
\* the database from one start of the program to the next.
InitRest ==
    /\ now = 0
    /\ joined = [u \in UserIds |-> {}]
    /\ tokenCtr = 0
    /\ link = [u \in UserIds |-> NoLink]
    /\ tries = [u \in UserIds |-> 0]
    /\ wins = [u \in UserIds |-> 0]
    /\ last = Quiet
    /\ probe = NoProbe
    /\ sweep = NoSweep
    /\ user_data = [u \in UserIds |-> NoJob]
    /\ prompts = <<>>
    /\ run = NoRun
    /\ conv = [u \in UserIds |-> NoConv]
    /\ tasks = <<>>

Init ==
    /\ users = [u \in {} |-> 0]
    /\ InitRest

\* ------------------------------------------------------------ environment
\* The clock moves on to a later reading.
Tick ==
    /\ \E t \in Instants : t > now /\ now' = t
    /\ last' = [Quiet EXCEPT !.op = "tick"]
    /\ UNCHANGED <<users, joined, tokenCtr, link, tries, wins>>
    /\ UNCHANGED <<probeVars, bcastVars>>

\* A user joins or leaves one required channel (outside the bot).
ToggleChannel(u, c) ==
    /\ joined' = [joined EXCEPT ![u] =
                    IF c \in @ THEN @ \ {c} ELSE @ \cup {c}]
    /\ last' = [Quiet EXCEPT !.op = "toggle"]
    /\ UNCHANGED <<now, users, tokenCtr, link, tries, wins>>
    /\ UNCHANGED <<probeVars, bcastVars>>

\* -------------------------------------------------------------- handlers
\* generate_token() for the next link (verification.py:18-21, 31).
FreshToken == tokenCtr + 1

\* Bookkeeping of an issuance: the counter moves on and the link shown to u
\* carries the new token.
Issue(u, token) ==
    /\ tokenCtr' = IF token = None THEN tokenCtr ELSE tokenCtr + 1
    /\ link' = IF token = None THEN link
               ELSE [link EXCEPT ![u] = [token |-> token, at |-> now]]

\* Bookkeeping of a handler run for u: called says verify_token ran with
\* token, ok what it returned ("User ... successfully verified" is logged,
\* verification.py:147), issued the token of a new link or None.  A new link
\* starts new counts.
Count(u, token, called, ok, issued) ==
    LET mine == called /\ token = link[u].token
    IN  /\ tries' = [tries EXCEPT ![u] =
                        IF issued # None THEN 0
                        ELSE IF mine /\ @ < 2 THEN @ + 1 ELSE @]
        /\ wins' = [wins EXCEPT ![u] =
                        IF issued # None THEN 0
                        ELSE IF mine /\ ok /\ @ < 2 THEN @ + 1 ELSE @]

\* /help: help_command behind require_membership (main.py:115-144).
help_command(u, err1, err2, api) ==
    /\ FreshToken \in Tokens
    /\ LET g == require_membership(users, u, joined[u], err1, err2, api,
                                   FreshToken, now)
       IN  /\ users' = g.db
           /\ Issue(u, g.issued)
           /\ Count(u, None, FALSE, FALSE, g.issued)
           /\ last' = [Quiet EXCEPT !.op = "help_command", !.user = u,
                         !.executed = g.run, !.stage = g.stage,
                         !.probes = g.probes, !.prompted = g.prompted,
                         !.failed = IF g.shown = "join" THEN g.failed ELSE {},
                         !.issued = g.issued,
                         !.shown = IF g.run THEN "help" ELSE g.shown]
    /\ UNCHANGED <<now, joined>>
    /\ UNCHANGED <<probeVars, bcastVars>>

\* The argument is the return action of the link u was shown last, and that
\* link's token is inside the redemption window.
Follows(u, arg) ==
    /\ link[u].token # None
    /\ arg.token = link[u].token
    /\ arg.uid = u
    /\ now - link[u].at <= TOKEN_EXPIRY

\* /start [verify_<token>_<uid>]: start behind require_membership
\* (main.py:30-112).
start_command(u, arg, err1, err2, api) ==
    /\ FreshToken \in Tokens
    /\ LET g == require_membership(users, u, joined[u], err1, err2, api,
                                   FreshToken, now)
           b == start(g.db, u, arg, now)
       IN  /\ users' = IF g.run THEN b.db ELSE g.db
           /\ Issue(u, g.issued)
           /\ Count(u, arg.token, g.run /\ b.redeem # "none",
                    g.run /\ b.redeem = "ok", g.issued)
           /\ last' = [Quiet EXCEPT !.op = "start", !.user = u,
                         !.executed = g.run, !.stage = g.stage,
                         !.probes = g.probes, !.prompted = g.prompted,
                         !.failed = IF g.shown = "join" THEN g.failed ELSE {},
                         !.issued = g.issued,
                         !.shown = IF g.run THEN b.shown ELSE g.shown,
                         !.follows = Follows(u, arg),
                         !.redeem = IF g.run THEN b.redeem ELSE "none",
                         !.token = IF g.run /\ b.redeem # "none"
                                   THEN arg.token ELSE None]
    /\ UNCHANGED <<now, joined>>
    /\ UNCHANGED <<probeVars, bcastVars>>

\* /verify: verify_command (verification.py:273-338), not behind the gate.
\* When get_verification_status raises the handler ends there: nothing is
\* shown and nothing is written.
verify_command(u, api) ==
    /\ FreshToken \in Tokens
    /\ LET status == get_verification_status(users, u, now)
           verified == status.raised \/ status.is_verified
           cl == create_verification_link(users, u, api, FreshToken, now)
           issued == IF verified THEN None ELSE cl.token
       IN  /\ users' = IF verified THEN users ELSE cl.db
           /\ Issue(u, issued)
           /\ Count(u, None, FALSE, FALSE, issued)
           /\ last' = [Quiet EXCEPT !.op = "verify_command", !.user = u,
                         !.issued = issued,
                         !.shown = IF status.raised THEN "none"
                                   ELSE IF verified THEN "already_verified"
                                   ELSE IF cl.url THEN "link"
                                   ELSE "link_error"]
    /\ UNCHANGED <<now, joined>>
    /\ UNCHANGED <<probeVars, bcastVars>>

\* Mutant: the button goes through force_join, which trusts a fresh positive
\* row instead of probing.
check_membership_callback_cached(u, err1, err2) ==
    /\ LET fj == force_join(users, u, joined[u], err1, err2, now)
       IN  /\ users' = fj.db
           /\ last' = [Quiet EXCEPT !.op = "check_membership_callback",
                         !.user = u, !.stage = fj.stage,
                         !.probes = fj.probes, !.prompted = fj.prompted,
                         !.failed = fj.failed,
                         !.shown = IF fj.ret THEN "welcome" ELSE "join"]
    /\ UNCHANGED <<now, joined, tokenCtr, link, tries, wins>>
    /\ UNCHANGED <<probeVars, bcastVars>>

\* The "I've Joined All Channels" button: check_membership_callback
\* (forcejoin.py:286-374) probes, persists, and probes again when denied.
check_membership_callback(u, err1, err2) ==
    /\ LET r1 == check_user_membership(joined[u], err1)
           r2 == check_user_membership(joined[u], err2)
       IN  /\ users' = update_user_membership(users, u, r1.is_member_of_all,
                                                FirstName(u), now)
           /\ last' = [Quiet EXCEPT !.op = "check_membership_callback",
                         !.user = u,
                         !.stage = IF r1.is_member_of_all THEN "probed"
                                   ELSE "denied",
                         !.probes = IF r1.is_member_of_all
                                    THEN Cardinality(REQUIRED_CHANNELS)
                                    ELSE 2 * Cardinality(REQUIRED_CHANNELS),
                         !.prompted = IF r1.is_member_of_all THEN {}
                                      ELSE {c \in REQUIRED_CHANNELS :
                                                ~r2.channels[c]},
                         !.failed = IF r1.is_member_of_all THEN {}
                                    ELSE r2.failed,
                         !.shown = IF r1.is_member_of_all THEN "welcome"
                                   ELSE "join"]
    /\ UNCHANGED <<now, joined, tokenCtr, link, tries, wins>>
    /\ UNCHANGED <<probeVars, bcastVars>>

\* A call of verification.verify_token(user_id, token) on its own.
redeem(u, token) ==
    /\ LET v == verify_token(users, u, token, now)
       IN  /\ users' = v.db
           /\ Count(u, token, TRUE, v.ok, None)
           /\ last' = [Quiet EXCEPT !.op = "verify_token", !.user = u,
                         !.redeem = IF v.ok THEN "ok" ELSE "fail",
                         !.token = token]
    /\ UNCHANGED <<now, joined, tokenCtr, link>>
    /\ UNCHANGED <<probeVars, bcastVars>>

\* Tokens a user can put in a /start argument: the ones shown in a link so
\* far, or one never generated.
Sendable == (1..tokenCtr) \cup {ForgedToken}
Args == {NoArg} \cup [token : Sendable, uid : UserIds]

\* What a call of create_verification_link comes to: the provider answers
\* with status "success", or the credential is missing (verification.py:26-28),
\* the request or its decoding raises (81-83), or the status is another
\* one (79-80).
Apis == {"ok", "no_credential", "raises", "not_success"}

\* What the gateway (channels whose query raises, in the first and in the
\* second probe) and the link provider answer during one handler run.  The
\* gate asks neither for an admin (forcejoin.py:229-230); the provider is
\* asked only after a first probe without error, and then the second probe
\* is not made or the provider is not asked.  The three ways the provider
\* call fails leave the gate in one and the same state; the gate is run
\* with one of them, /verify with each.
Answers(u) ==
    IF u \in ADMIN_IDS THEN {<<{}, {}, "ok">>}
    ELSE {<<{}, {}, "ok">>, <<{}, {}, "raises">>, <<{}, {1}, "ok">>,
          <<{1}, {}, "ok">>, <<{1}, {1}, "ok">>}

Probes == {<<{}, {}>>, <<{}, {1}>>, <<{1}, {}>>, <<{1}, {1}>>}

Next ==
    \/ Tick
    \/ \E u \in UserIds \ ADMIN_IDS, c \in REQUIRED_CHANNELS :
          ToggleChannel(u, c)
    \/ \E u \in UserIds : \E a \in Answers(u) :
          help_command(u, a[1], a[2], a[3])
    \/ \E u \in UserIds, arg \in Args : \E a \in Answers(u) :
          start_command(u, arg, a[1], a[2], a[3])
    \/ \E u \in UserIds, api \in Apis : verify_command(u, api)
    \/ \E u \in UserIds \ ADMIN_IDS, p \in Probes :
          check_membership_callback(u, p[1], p[2])
    \/ \E u \in UserIds \ ADMIN_IDS, token \in Sendable : redeem(u, token)

Spec == Init /\ [][Next]_vars

\* ------------------------------------------- check_user_membership, stepwise
\* config.py:47  REQUIRED_CHANNELS is a list; the loop at forcejoin.py:31
\* walks it in this order.
ChannelOrder == <<1, 2>>

\* What one get_chat_member call can come to: a ChatMember.status, or
\* "error" for a call that raises TelegramError or BadRequest.
GatewayAnswers ==
    {"member", "administrator", "creator", "restricted", "left", "kicked",
     "error"}

\* forcejoin.py:40  the statuses that count as joined.
JoinedStatuses == {"member", "administrator", "creator"}

\* results['channels'][channel_id] = entry
SetChannel(ch, c, entry) ==
    [k \in (DOMAIN ch) \cup {c} |-> IF k = c THEN entry ELSE ch[k]]

\* forcejoin.py:25-28  a call starts with an all-true aggregate and no
\* per-channel entry.  answers is what the gateway will say per channel.
ProbeStart(u, answers) ==
    /\ probe.pc \in {"idle", "done"}
    /\ probe' = [NoProbe EXCEPT !.pc = "loop", !.user = u,
                    !.answers = answers, !.i = 1]
    /\ UNCHANGED <<gateVars, bcastVars, sweep>>

\* Mutant: the loop stops at the first channel that is not joined.
ProbeQuery_stop_early ==
    /\ probe.pc = "loop"
    /\ probe.i <= Len(ChannelOrder)
    /\ LET c == ChannelOrder[probe.i]
           a == probe.answers[c]
           is_member == a \in JoinedStatuses
       IN  probe' = [probe EXCEPT
                !.queried = Append(@, c),
                !.channels = SetChannel(@, c,
                                [is_member |-> is_member, status |-> a]),
                !.is_member_of_all = @ /\ is_member,
                !.i = IF is_member THEN @ + 1 ELSE Len(ChannelOrder) + 1]
    /\ UNCHANGED <<gateVars, bcastVars, sweep>>

\* forcejoin.py:31-61  one pass of the loop body: one get_chat_member query
\* for the next channel; a query that raises is recorded as not joined with
\* status 'error'.
ProbeQuery ==
    /\ probe.pc = "loop"
    /\ probe.i <= Len(ChannelOrder)
    /\ LET c == ChannelOrder[probe.i]
           a == probe.answers[c]
           is_member == a \in {"member", "administrator", "creator"}
       IN  probe' = [probe EXCEPT
                !.queried = Append(@, c),
                !.channels = SetChannel(@, c,
                                IF a = "error"
                                THEN [is_member |-> FALSE, status |-> "error"]
                                ELSE [is_member |-> is_member, status |-> a]),
                !.is_member_of_all = IF a = "error" THEN FALSE
                                     ELSE @ /\ is_member,
                !.i = @ + 1]
    /\ UNCHANGED <<gateVars, bcastVars, sweep>>

\* forcejoin.py:63-66  the loop is over, results is returned.
ProbeReturn ==
    /\ probe.pc = "loop"
    /\ probe.i > Len(ChannelOrder)
    /\ probe' = [probe EXCEPT !.pc = "done"]
    /\ UNCHANGED <<gateVars, bcastVars, sweep>>

NextProbe ==
    \/ \E u \in UserIds, answers \in [REQUIRED_CHANNELS -> GatewayAnswers] :
          ProbeStart(u, answers)
    \/ ProbeQuery
    \/ ProbeReturn

SpecProbe == Init /\ [][NextProbe]_vars

\* ------------------------------------------------------ main.py, broadcast
\* The users who can come to have a row while a broadcast is prepared: the
\* non-admin of UserIds and one more.
Audience == {2, 3}
\* The message texts an admin may give to /broadcast.
Contents == {1, 2}

\* The orders in which a SELECT without ORDER BY may return the rows of S.
Orders(S) ==
    {q \in [1..Cardinality(S) -> S] :
        \A a, b \in 1..Cardinality(S) : a # b => q[a] # q[b]}

\* round(n / d) of Python 3: to the nearest integer, a tie to the even one.
Round(n, d) ==
    LET q == n \div d
        r == n % d
    IN  IF 2 * r < d THEN q
        ELSE IF 2 * r > d THEN q + 1
        ELSE IF q % 2 = 0 THEN q ELSE q + 1

\* The application handles one update at a time (main.py:654 builds it
\* without concurrent updates): while broadcast_callback is in its loop no
\* other handler runs.
HandlerFree == run.pc # "loop"

\* A user's first gate run: update_user_membership finds no row and creates
\* one (forcejoin.py:103-112); the user has joined no channel.
FirstContact(u) ==
    /\ HandlerFree
    /\ u \notin DOMAIN users
    /\ users' = update_user_membership(users, u, FALSE, FirstName(u), now)
    /\ UNCHANGED <<now, joined, tokenCtr, link, tries, wins, last>>
    /\ UNCHANGED <<probeVars, bcastVars>>

\* The command messages an admin sends: message 1 is "/broadcast <text>",
\* message 2 a photo whose caption is "/broadcast <text> [button:..:..]".
\* What main.py:277-312 stores of them besides the text: the parsed buttons
\* and the file id of the media, None for a key that is not set.
ButtonsOf(content) == IF content = 2 THEN content ELSE None
MediaOf(content) == IF content = 2 THEN content ELSE None

\* The dict assigned to user_data["broadcast_info"] (main.py:267-312): a
\* new dict with the list of user ids, to which the text, the buttons and
\* the media of the command message are added.
NewJob(content, order) ==
    [content |-> content, users |-> order, buttons |-> ButtonsOf(content),
     media |-> MediaOf(content)]

\* Mutant: the fields of the new job are written into the dict already in
\* user_data, so a key the new command does not set keeps its old value.
MergedJob(old, content, order) ==
    [k \in DOMAIN old |->
        IF k = "users" THEN order
        ELSE IF NewJob(content, order)[k] # None
        THEN NewJob(content, order)[k]
        ELSE old[k]]

\* Mutant of broadcast_command that merges.
broadcast_command_merge(u, content, order, prepare_ok) ==
    /\ HandlerFree
    /\ Len(prompts) < MaxCommands
    /\ IF u \notin ADMIN_IDS \/ content = None \/ ~prepare_ok
       THEN UNCHANGED <<user_data, prompts, run>>
       ELSE /\ prompts' = Append(prompts,
                             [by |-> u, count |-> Cardinality(DOMAIN users),
                              content |-> content, answer |-> "none",
                              pressed_by |-> 0])
            /\ user_data' = [user_data EXCEPT ![u] =
                                MergedJob(user_data[u], content, order)]
            /\ run' = NoRun
    /\ UNCHANGED <<gateVars, probeVars, conv, tasks>>

\* Mutant: /broadcast without the admin test.
broadcast_command_anyone(u, content, order, prepare_ok) ==
    /\ HandlerFree
    /\ Len(prompts) < MaxCommands
    /\ IF content = None \/ ~prepare_ok
       THEN UNCHANGED <<user_data, prompts, run>>
       ELSE /\ prompts' = Append(prompts,
                             [by |-> u, count |-> Cardinality(DOMAIN users),
                              content |-> content, answer |-> "none",
                              pressed_by |-> 0])
            /\ user_data' = [user_data EXCEPT ![u] = NewJob(content, order)]
            /\ run' = NoRun
    /\ UNCHANGED <<gateVars, probeVars, conv, tasks>>

\* /broadcast (main.py:213-320).  A non-admin is refused (221-223); without
\* arguments (content None) the help text is sent (226-239).  Otherwise the
\* rows are counted, the prompt with the count and the two buttons is sent,
\* and user_data["broadcast_info"] is set to the new job: the list of user
\* ids (in the order the query returns them), the text, and the buttons and
\* media if any.  When the query or the reply raises (~prepare_ok) the
\* except at 314 reports it and nothing is stored.
broadcast_command(u, content, order, prepare_ok) ==
    /\ HandlerFree
    /\ Len(prompts) < MaxCommands
    /\ IF u \notin ADMIN_IDS \/ content = None \/ ~prepare_ok
       THEN UNCHANGED <<user_data, prompts, run>>
       ELSE /\ prompts' = Append(prompts,
                             [by |-> u, count |-> Cardinality(DOMAIN users),
                              content |-> content, answer |-> "none",
                              pressed_by |-> 0])
            /\ user_data' = [user_data EXCEPT ![u] = NewJob(content, order)]
            /\ run' = NoRun
    /\ UNCHANGED <<gateVars, probeVars, conv, tasks>>

\* Mutant: the cancel branch does not return and goes on to dispatch.
broadcast_callback_cancel_falls_through(u, k, data, progress_ok) ==
    /\ HandlerFree
    /\ k \in DOMAIN prompts
    /\ prompts[k].answer = "none"
    /\ prompts' = [prompts EXCEPT ![k].answer = data, ![k].pressed_by = u]
    /\ IF user_data[u] = NoJob
       THEN run' = run
       ELSE run' = [NoRun EXCEPT
                      !.pc = IF progress_ok THEN "loop" ELSE "crashed",
                      !.by = u,
                      !.users = user_data[u].users,
                      !.total = Len(user_data[u].users)]
    /\ UNCHANGED <<gateVars, probeVars, user_data, conv, tasks>>

\* A press by user u of a button of prompt k (main.py:322-351); the prompt
\* is a message in the chat of the command and user_data is that of the
\* presser.  Without a job in user_data the prompt is edited to "not
\* found"; on broadcast_cancel it is edited to "cancelled" and the handler
\* returns; otherwise the job's user list is taken, the counters start at 0
\* and the progress message is sent (a send that raises ends the handler
\* there).
broadcast_callback(u, k, data, progress_ok) ==
    /\ HandlerFree
    /\ k \in DOMAIN prompts
    /\ prompts[k].answer = "none"
    /\ prompts' = [prompts EXCEPT ![k].answer = data, ![k].pressed_by = u]
    /\ IF user_data[u] = NoJob \/ data = "broadcast_cancel"
       THEN run' = run
       ELSE run' = [NoRun EXCEPT
                      !.pc = IF progress_ok THEN "loop" ELSE "crashed",
                      !.by = u,
                      !.users = user_data[u].users,
                      !.total = Len(user_data[u].users)]
    /\ UNCHANGED <<gateVars, probeVars, user_data, conv, tasks>>

\* One pass of the loop body (main.py:354-495) for recipient users[i]
\* (i counts from 0).  The progress message is edited when i % 20 = 0 or 5 s
\* have passed (time_due); the edit is inside the try, so an edit that raises
\* is caught at 493: failed is incremented and the send is not made.
\* Otherwise the send is made; it increments successful and is followed by
\* the sleep of 50 ms (488-491), or raises and increments failed (493-495).
DispatchStep(time_due, edit_ok, send_ok) ==
    /\ run.pc = "loop"
    /\ run.i < run.total
    /\ LET edit == (run.i % PROGRESS_EVERY = 0) \/ time_due
           sent == ~edit \/ edit_ok
       IN  run' = [run EXCEPT
                !.i = @ + 1,
                !.slept = IF sent THEN send_ok ELSE @,
                !.rushed = IF sent /\ run.attempts # <<>> /\ ~run.slept
                           THEN @ \cup {Len(run.attempts) + 1}
                           ELSE @,
                !.edits = IF edit /\ edit_ok THEN @ + 1 ELSE @,
                !.timed = IF edit /\ edit_ok
                             /\ run.i % PROGRESS_EVERY # 0
                          THEN @ + 1 ELSE @,
                !.attempts = IF sent THEN Append(@, run.users[run.i + 1])
                             ELSE @,
                !.raised = IF sent /\ ~send_ok THEN @ \cup {run.i + 1}
                           ELSE @,
                !.successful = IF sent /\ send_ok THEN @ + 1 ELSE @,
                !.failed = IF sent /\ send_ok THEN @ ELSE @ + 1]
    /\ UNCHANGED <<gateVars, probeVars, user_data, prompts>>
    /\ UNCHANGED <<conv, tasks>>

\* After the loop (main.py:497-515): the completion text is built, which
\* divides by total; the progress message is edited to it; broadcast_info is
\* deleted from user_data.  An exception (total = 0, or the edit raises)
\* ends the handler before the lines after it.
DispatchFinish(final_ok) ==
    /\ run.pc = "loop"
    /\ run.i = run.total
    /\ IF run.total = 0 \/ ~final_ok
       THEN /\ run' = [run EXCEPT !.pc = "crashed"]
            /\ UNCHANGED user_data
       ELSE /\ run' = [run EXCEPT
                          !.pc = "done",
                          !.edits = @ + 1,
                          !.summaries = @ + 1,
                          !.summary =
                              [successful |-> run.successful,
                               failed |-> run.failed,
                               total |-> run.total,
                               rate |-> Round(run.successful * 100,
                                              run.total)]]
            /\ user_data' = [user_data EXCEPT ![run.by] = NoJob]
    /\ UNCHANGED <<gateVars, probeVars, prompts, conv, tasks>>

Buttons == {"broadcast_confirm", "broadcast_cancel"}

\* ------------------------------------------------- main.py, a long dispatch
\* A user table with a row for each id of S, as update_user_membership
\* created them at time 0.
Stored(S) ==
    [u \in S |-> update_user_membership([x \in {} |-> 0], u, FALSE,
                                   FirstName(u), 0)[u]]

\* The rows of the table in primary-key order, the order in which the
\* database returns them when nothing was deleted.
IdOrder(S) ==
    [k \in 1..Cardinality(S) |->
        CHOOSE u \in S : Cardinality({v \in S : v < u}) = k - 1]

\* The table holds CadenceRecipients rows of non-admins.
InitCadence ==
    /\ users = Stored(2..(CadenceRecipients + 1))
    /\ InitRest

\* The admin broadcasts to them.  Every send goes through; the 5 s rule may
\* fire at any recipient; the edit before the first recipient, whose text
\* is the text the progress message was sent with (main.py:349, 363), may
\* be refused by the gateway.
NextCadence ==
    \/ \E u \in ADMIN_IDS, content \in Contents, prepare_ok \in BOOLEAN :
          broadcast_command(u, content, IdOrder(DOMAIN users), prepare_ok)
    \/ \E u \in ADMIN_IDS, k \in DOMAIN prompts, data \in Buttons :
          \E progress_ok \in BOOLEAN :
             broadcast_callback(u, k, data, progress_ok)
    \/ \E time_due \in BOOLEAN :
          \E edit_ok \in (IF run.i = 0 THEN BOOLEAN ELSE {TRUE}) :
             DispatchStep(time_due, edit_ok, TRUE)
    \/ \E final_ok \in BOOLEAN : DispatchFinish(final_ok)

SpecCadence == InitCadence /\ [][NextCadence]_vars

\* ------------------------------------------- broadcast.py: the conversation
\* broadcast.py defines a second coordinator, a ConversationHandler
\* (broadcast.py:354-373) whose entry point is /broadcast as well.  main()
\* registers main.py's pair (main.py:674-675) and no module imports
\* broadcast.py, so its handlers are modelled in a specification of their
\* own, run in the order of the states table with one conversation per
\* user.
\* The broadcast types offered by the keyboard (broadcast.py:30-36).  video,
\* document and audio run the code of photo with another attribute name.
BroadcastTypes == {"text", "photo"}

\* File ids of received media, and the captions an admin sends.
MediaIds == {1}
Captions == {1}
\* Texts are numbered: 0 is the empty string, 9 the text "/skip".
EmptyText == 0
SkipText == 9

\* The content one send of send_broadcast carries, read from user_data at
\* the time of the send (broadcast.py:258-267); .get() turns a missing key
\* into ''.
Get(v) == IF v = None THEN EmptyText ELSE v

ContentOf(type, c) ==
    IF type = "text"
    THEN [message |-> Get(c.message)]
    ELSE [media |-> Get(c.media), caption |-> Get(c.caption)]

\* The preview with the Confirm and Cancel buttons (broadcast.py:97-103,
\* 167-202).  It shows the content and no recipient count.
Preview(u, content) ==
    Append(prompts,
           [by |-> u, count |-> None, content |-> content,
            answer |-> "none", pressed_by |-> 0])

\* /broadcast, the entry point (broadcast.py:19-45): taken only outside a
\* conversation; require_membership lets an admin through (forcejoin.py
\* admin bypass), anyone else is refused at broadcast.py:25-27.
broadcast_command_conv(u) ==
    /\ conv[u].state = "END"
    /\ Len(prompts) < MaxCommands
    /\ IF u \in ADMIN_IDS
       THEN conv' = [conv EXCEPT ![u].state = "TYPE"]
       ELSE UNCHANGED conv
    /\ UNCHANGED <<gateVars, probeVars, user_data, prompts, run, tasks>>

\* A type button (broadcast.py:47-81).
broadcast_type_callback(u, type) ==
    /\ conv[u].state = "TYPE"
    /\ conv' = [conv EXCEPT ![u].type = type,
                            ![u].state = IF type = "text" THEN "TEXT"
                                         ELSE "MEDIA"]
    /\ UNCHANGED <<gateVars, probeVars, user_data, prompts, run, tasks>>

\* The text of a text broadcast (broadcast.py:83-105): stored, then the
\* preview is sent; when the reply raises the state stays.
broadcast_text_received(u, content, preview_ok) ==
    /\ conv[u].state = "TEXT"
    /\ conv' = [conv EXCEPT ![u].message = content,
                            ![u].state = IF preview_ok THEN "CONFIRM"
                                         ELSE "TEXT"]
    /\ prompts' = IF preview_ok
                  THEN Preview(u, [message |-> content])
                  ELSE prompts
    /\ UNCHANGED <<gateVars, probeVars, user_data, run, tasks>>

\* prepare_broadcast_confirmation (broadcast.py:149-210) for the user_data c
\* of user u: the next state and the prompts.
prepare_broadcast_confirmation(u, c, preview_ok) ==
    IF preview_ok
    THEN [state |-> "CONFIRM",
          prompts |-> Preview(u, ContentOf(c.type, c))]
    ELSE [state |-> "MEDIA", prompts |-> prompts]

\* The media of a media broadcast (broadcast.py:107-138).  A message
\* without the chosen kind of media is refused; media with a caption goes
\* to the preview, media without one to the caption question.
broadcast_media_received(u, valid, media, caption, preview_ok) ==
    /\ conv[u].state = "MEDIA"
    /\ IF ~valid
       THEN UNCHANGED <<conv, prompts>>
       ELSE IF caption # None
       THEN LET c == [conv[u] EXCEPT !.media = media, !.caption = caption]
                p == prepare_broadcast_confirmation(u, c, preview_ok)
            IN  /\ conv' = [conv EXCEPT ![u] = [c EXCEPT !.state = p.state]]
                /\ prompts' = p.prompts
       ELSE /\ conv' = [conv EXCEPT ![u].media = media,
                                    ![u].state = "CAPTION"]
            /\ UNCHANGED prompts
    /\ UNCHANGED <<gateVars, probeVars, user_data, run, tasks>>

\* The caption, or /skip for the empty one (broadcast.py:140-147).
broadcast_caption_received(u, text, preview_ok) ==
    /\ conv[u].state = "CAPTION"
    /\ LET c == [conv[u] EXCEPT !.caption = IF text # SkipText THEN text
                                            ELSE EmptyText]
           p == prepare_broadcast_confirmation(u, c, preview_ok)
       IN  /\ conv' = [conv EXCEPT ![u] = [c EXCEPT !.state = p.state]]
           /\ prompts' = p.prompts
    /\ UNCHANGED <<gateVars, probeVars, user_data, run, tasks>>

\* A new send_broadcast task of admin u (broadcast.py:235-253).  The task
\* runs to its first await, the first send, before the application takes
\* the next update: it reads broadcast_type and queries the user rows
\* (order is the order the query returns them) and the content of the
\* first send (pending) at once.  confirmed keeps what user_data held as
\* content at that moment; the task itself takes no copy of it.
NewTask(u, order) ==
    [by |-> u, type |-> IF conv[u].type = "none" THEN "text"
                        ELSE conv[u].type,
     users |-> order, total |-> Len(order), i |-> 0, successful |-> 0,
     failed |-> 0, attempts |-> <<>>, pc |-> "loop", summary |-> <<>>,
     pending |-> ContentOf(IF conv[u].type = "none" THEN "text"
                           ELSE conv[u].type, conv[u]),
     confirmed |-> ContentOf(IF conv[u].type = "none" THEN "text"
                             ELSE conv[u].type, conv[u])]

\* A button of a preview (broadcast.py:212-233), handled in state CONFIRM.
\* Cancel ends the conversation; anything else matching ^broadcast_ creates
\* the detached send_broadcast task and ends the conversation.
broadcast_confirm_callback(u, k, data, order) ==
    /\ conv[u].state = "CONFIRM"
    /\ k \in DOMAIN prompts
    /\ prompts[k].by = u
    /\ prompts[k].answer = "none"
    /\ data # "broadcast_cancel" => Len(tasks) < MaxTasks
    /\ prompts' = [prompts EXCEPT ![k].answer = data, ![k].pressed_by = u]
    /\ conv' = [conv EXCEPT ![u].state = "END"]
    /\ tasks' = IF data = "broadcast_cancel"
                THEN tasks
                ELSE Append(tasks, NewTask(u, order))
    /\ UNCHANGED <<gateVars, probeVars, user_data, run>>

\* /cancel, the fallback (broadcast.py:348-351).
cancel_broadcast(u) ==
    /\ conv[u].state # "END"
    /\ conv' = [conv EXCEPT ![u].state = "END"]
    /\ UNCHANGED <<gateVars, probeVars, user_data, prompts, run, tasks>>

\* The send the task waits for returns or raises (a raise is counted as
\* failed), the task sleeps 50 ms and, when a user is left, reads the
\* content of the next send from user_data and starts that send
\* (broadcast.py:256-311).
TaskSend(j, send_ok) ==
    /\ j \in DOMAIN tasks
    /\ tasks[j].pc = "loop"
    /\ tasks[j].i < tasks[j].total
    /\ LET t == tasks[j]
           to == t.users[t.i + 1]
       IN  tasks' = [tasks EXCEPT ![j] =
              [t EXCEPT !.i = t.i + 1,
                        !.attempts = Append(t.attempts,
                            [to |-> to, ok |-> send_ok,
                             content |-> t.pending]),
                        !.pending = IF t.i + 1 < t.total
                                    THEN ContentOf(t.type, conv[t.by])
                                    ELSE @,
                        !.successful = IF send_ok THEN @ + 1 ELSE @,
                        !.failed = IF send_ok THEN @ ELSE @ + 1]]
    /\ UNCHANGED <<gateVars, probeVars, user_data, prompts, run, conv>>

\* After the loop (broadcast.py:313-341): the summary is sent to the admin;
\* when that raises the task ends in its except branch.  user_data is left
\* as it is.
TaskFinish(j, summary_ok) ==
    /\ j \in DOMAIN tasks
    /\ tasks[j].pc = "loop"
    /\ tasks[j].i = tasks[j].total
    /\ LET t == tasks[j]
       IN  tasks' = [tasks EXCEPT ![j] =
              IF summary_ok
              THEN [t EXCEPT !.pc = "done",
                             !.summary = <<[successful |-> t.successful,
                                            failed |-> t.failed,
                                            total |-> t.total]>>]
              ELSE [t EXCEPT !.pc = "error"]]
    /\ UNCHANGED <<gateVars, probeVars, user_data, prompts, run, conv>>


NextBroadcast ==
    \/ \E u \in Audience : FirstContact(u)
    \/ \E u \in UserIds, content \in Contents \cup {None} :
          \E order \in Orders(DOMAIN users), prepare_ok \in BOOLEAN :
             broadcast_command(u, content, order, prepare_ok)
    \/ \E u \in UserIds, k \in DOMAIN prompts, data \in Buttons :
          \E progress_ok \in BOOLEAN :
             broadcast_callback(u, k, data, progress_ok)
    \/ \E time_due, edit_ok, send_ok \in BOOLEAN :
          DispatchStep(time_due, edit_ok, send_ok)
    \/ \E final_ok \in BOOLEAN : DispatchFinish(final_ok)

SpecBroadcast == Init /\ [][NextBroadcast]_vars

\* The conversation of broadcast.py with its detached tasks, while users
\* come to the bot.
NextConversation ==
    \/ \E u \in Audience : FirstContact(u)
    \/ \E u \in UserIds : broadcast_command_conv(u)
    \/ \E u \in UserIds, type \in BroadcastTypes :
          broadcast_type_callback(u, type)
    \/ \E u \in UserIds, content \in Contents, preview_ok \in BOOLEAN :
          broadcast_text_received(u, content, preview_ok)
    \/ \E u \in UserIds, valid, preview_ok \in BOOLEAN :
          \E media \in MediaIds, caption \in Captions \cup {None} :
             broadcast_media_received(u, valid, media, caption, preview_ok)
    \/ \E u \in UserIds, text \in Captions \cup {SkipText} :
          \E preview_ok \in BOOLEAN :
             broadcast_caption_received(u, text, preview_ok)
    \/ \E u \in UserIds, k \in DOMAIN prompts, data \in Buttons :
          \E order \in Orders(DOMAIN users) :
             broadcast_confirm_callback(u, k, data, order)
    \/ \E u \in UserIds : cancel_broadcast(u)
    \/ \E j \in DOMAIN tasks, send_ok \in BOOLEAN : TaskSend(j, send_ok)
    \/ \E j \in DOMAIN tasks, summary_ok \in BOOLEAN :
          TaskFinish(j, summary_ok)

SpecConversation == Init /\ [][NextConversation]_vars

\* ------------------------------------------------ main.py, periodic sweep
\* The users that may have a row: the admin and two others.
SweepUsers == {1, 2, 3}

\* Clock readings: a row checked at 0 is older than a day at SWEEP_AGE + 1
\* and after it; a run that starts at SWEEP_AGE + 1 can still be waiting
\* for the gateway at SWEEP_AGE + 2.
SweepInstants == {0, SWEEP_AGE + 1, SWEEP_AGE + 2}

\* The clock moves on to a later reading.
SweepTick ==
    /\ \E t \in SweepInstants : t > now /\ now' = t
    /\ UNCHANGED <<users, joined, tokenCtr, link, tries, wins, last>>
    /\ UNCHANGED <<probeVars, bcastVars>>

\* The names under which a user is seen: one user changes the first name
\* of the account between two updates, the others keep theirs.
SweepNames(u) == IF u = 2 THEN Names ELSE {FirstName(u)}

\* A membership refresh of u by a handler (force_join without a fresh
\* positive row, or the "I've Joined" button) while the job waits for the
\* gateway or is not running: update_user_membership writes the result of
\* its probe, the time and the caller's name (forcejoin.py:95-112) and then
\* closes the database connection whoever opened it (113-116; force_join has
\* done the same before, 156-159).  The connection is the one the job's
\* query runs on.
GateRefresh(u, is_member, first_name) ==
    /\ HandlerFree
    /\ users' = update_user_membership(users, u, is_member, first_name, now)
    /\ sweep' = IF sweep.pc = "loop" THEN [sweep EXCEPT !.cut = TRUE]
                ELSE sweep
    /\ UNCHANGED <<now, joined, tokenCtr, link, tries, wins, last>>
    /\ UNCHANGED <<bcastVars, probe>>

\* User.select().where(User.last_checked < yesterday) (main.py:154, 163).
SweepQuery(db, t) ==
    {u \in DOMAIN db : db[u]["last_checked"] < t - SWEEP_AGE}

\* The rows of q from the first one that is not an admin's: the loop takes
\* an admin's row and goes on at once (main.py:168-170).
RECURSIVE SkipAdmins(_)
SkipAdmins(q) ==
    IF q = <<>> THEN q
    ELSE IF Head(q) \in ADMIN_IDS THEN SkipAdmins(Tail(q))
    ELSE q

\* The for statement asks the cursor for its next row (main.py:166), up to
\* the next gateway wait.  The query hands its rows over one by one, on the
\* connection it was run on: once that connection was closed the request
\* raises, outside the try of the loop body, and the except at 190 ends the
\* run.  Otherwise the next row that is not an admin's is loaded as it
\* stands in the table db and the probe for it begins (173), or there is no
\* such row and the run logs its count and ends (188).
Fetch(sw, db) ==
    IF sw.cut THEN [sw EXCEPT !.pc = "done", !.aborted = TRUE]
    ELSE IF SkipAdmins(sw.todo) = <<>>
    THEN [sw EXCEPT !.pc = "done", !.todo = <<>>, !.inst = <<>>]
    ELSE [sw EXCEPT !.pc = "loop", !.todo = SkipAdmins(sw.todo),
                    !.inst = db[Head(SkipAdmins(sw.todo))]]

\* The last_checked column of table db.
CheckedAt(db) ==
    [u \in DOMAIN db |-> [a \in {"last_checked"} |-> db[u][a]]]

\* The job starts (main.py:146-166): yesterday is computed, the query is
\* run and the first row is asked for; order is the order in which the
\* query returns the rows.  A query that raises is caught at 190 and ends
\* the run.
SweepStart(order, select_ok) ==
    /\ sweep.pc \in {"idle", "done"}
    /\ order \in Orders(SweepQuery(users, now))
    /\ sweep' = IF select_ok
                THEN Fetch([NoSweep EXCEPT !.todo = order, !.ok = TRUE,
                                     !.selected = SweepQuery(users, now),
                                     !.at_start = CheckedAt(users),
                                     !.started = now],
                           users)
                ELSE [NoSweep EXCEPT !.pc = "done",
                                     !.at_start = CheckedAt(users),
                                     !.started = now]
    /\ UNCHANGED <<gateVars, bcastVars, probe>>

\* Mutant: save(only=[User.is_member]) after a refresh by somebody else;
\* the row keeps the last_checked it has.
SweepSave_only_member(db, u, inst, r, t) ==
    IF db[u]["last_checked"] # inst["last_checked"]
    THEN [db EXCEPT ![u]["is_member"] = r]
    ELSE UserSave(db, u,
            SetAttrs(inst, [a \in {"is_member", "last_checked"} |->
                               IF a = "is_member" THEN r ELSE t]))

\* main.py:177-179  the loaded instance gets the aggregate and the time and
\* is saved: every declared field of the instance is written to the row.
SweepSave(db, u, inst, r, t) ==
    UserSave(db, u,
        SetAttrs(inst, [a \in {"is_member", "last_checked"} |->
                           IF a = "is_member" THEN r ELSE t]))

\* What the rest of the loop body does for the loaded row, once the gateway
\* has answered (main.py:173-185).  member_of and err are the gateway's
\* answers; fault says what raises: "probe" the call of
\* check_user_membership, "save" user.save(), "none" nothing; the except at
\* 184 logs it.  Then the loop asks for the next row.
SweepBody(member_of, err, fault) ==
    LET u == Head(sweep.todo)
        r == check_user_membership(member_of, err).is_member_of_all
        done == [sweep EXCEPT !.todo = Tail(@), !.inst = <<>>]
        db == IF fault = "none"
              THEN SweepSave(users, u, sweep.inst, r, now)
              ELSE users
        sw == IF fault = "probe"
              THEN [done EXCEPT !.probed = Append(@, u),
                                !.faults = @ \cup {u}]
              ELSE IF fault = "save"
              THEN [done EXCEPT !.probed = Append(@, u),
                                !.result = Append(@, r),
                                !.faults = @ \cup {u}]
              ELSE [done EXCEPT !.probed = Append(@, u),
                                !.result = Append(@, r),
                                !.count = @ + 1]
    IN  [db |-> db, sw |-> Fetch(sw, db)]

\* The gateway answers the probe of the loaded row: the rest of the loop
\* body and the request for the next row.
SweepStep(member_of, err, fault) ==
    /\ sweep.pc = "loop"
    /\ LET b == SweepBody(member_of, err, fault)
       IN  /\ users' = b.db
           /\ sweep' = b.sw
    /\ UNCHANGED <<now, joined, tokenCtr, link, tries, wins, last>>
    /\ UNCHANGED <<bcastVars, probe>>

SweepFaults == {"none", "probe", "save"}

NextSweep ==
    \/ SweepTick
    \/ \E u \in SweepUsers, is_member \in BOOLEAN :
          \E first_name \in SweepNames(u) :
             GateRefresh(u, is_member, first_name)
    \/ \E order \in Orders(SweepQuery(users, now)), select_ok \in BOOLEAN :
          SweepStart(order, select_ok)
    \/ \E member_of, err \in SUBSET REQUIRED_CHANNELS :
          \E fault \in SweepFaults : SweepStep(member_of, err, fault)

SpecSweep == Init /\ [][NextSweep]_vars

\* The job queue runs the coroutine of the job to its end: every gateway
\* call it awaits returns or raises.
SweepRuns ==
    \E member_of, err \in SUBSET REQUIRED_CHANNELS :
       \E fault \in SweepFaults : SweepStep(member_of, err, fault)

SpecSweepFair == SpecSweep /\ WF_vars(SweepRuns)

\* ================================================================== claims
GateOps == {"help_command", "start"}

\* The value of attribute a in the stored row of u; None when u has no row
\* or the row has no such column.
AttrOf(db, u, a) ==
    IF u \in DOMAIN db /\ a \in DOMAIN db[u] THEN db[u][a] ELSE None

\* The last handler run called verify_token for u with the token of u's
\* current link.
RedeemedLive(u) ==
    /\ last.op = "verify_token"
    /\ last.user = u
    /\ link[u].token # None
    /\ last.token = link[u].token

C2_EndToEnd ==
    [][\A u \in UserIds \ ADMIN_IDS :
          ( /\ last.op \in GateOps
            /\ last.user = u
            /\ last.shown = "link"
            /\ last'.op = "start"
            /\ last'.user = u
            /\ last'.follows )
          => ( /\ last'.redeem = "ok"
               /\ is_user_verified(users', u, now').ret
               /\ AttrOf(users', u, "verified_until") = now' + GRANT_WINDOW )]_vars

\* C3: for a non-admin the wrapped operation runs only if the membership
\* stage of that run returned true (a fresh cached positive, or a probe that
\* found every channel joined) and verified_until is present and in the future.
C3_GateOnlyIf ==
    \A u \in UserIds \ ADMIN_IDS :
        (last.op \in GateOps /\ last.user = u /\ last.executed)
        => /\ last.stage \in {"cached", "probed"}
           /\ CachedMember(users, u, now)
           /\ (last.stage = "probed" => joined[u] = REQUIRED_CHANNELS)
           /\ AttrOf(users, u, "verified_until") # None
           /\ now < AttrOf(users, u, "verified_until")

\* Witness of C3: a non-admin passed the membership stage, was not verified,
\* and the wrapped operation did not run.
C3_Witness ==
    \E u \in UserIds \ ADMIN_IDS :
        /\ last.op \in GateOps
        /\ last.user = u
        /\ last.stage \in {"cached", "probed"}
        /\ ~is_user_verified(users, u, now).ret
        /\ ~last.executed

\* C4: a verify_token call that returns False leaves the user table as it
\* was (token, issuance time and verified_until included).
C4_FailureMutatesNothing ==
    [][last'.redeem = "fail" => users' = users]_vars

\* Witness of C4: verify_token returned False for a user who has a row.
C4_Witness ==
    /\ last.op = "verify_token"
    /\ last.redeem = "fail"
    /\ last.user \in DOMAIN users

\* C5: redemption window.  verify_token with the user's issued token returns
\* True 3599 s after issuance and False more than 3600 s after it.
C5_RedemptionWindow ==
    \A u \in UserIds :
        RedeemedLive(u)
        => /\ (now - link[u].at = TOKEN_EXPIRY - 1 => last.redeem = "ok")
           /\ (now - link[u].at > TOKEN_EXPIRY => last.redeem = "fail")

C7_GrantAndClear ==
    \A u \in UserIds :
        /\ (RedeemedLive(u) /\ now - link[u].at <= TOKEN_EXPIRY)
              => last.redeem = "ok"
        /\ (last.redeem = "ok" /\ last.user = u)
              => /\ AttrOf(users, u, "verified_until") = now + GRANT_WINDOW
                 /\ AttrOf(users, u, "verification_token") = None

\* C8: for an admin the gate always runs the wrapped operation, and makes
\* no channel query, writes no row and issues no token.
C8_AdminBypass ==
    [][\A u \in ADMIN_IDS :
          (last'.op \in GateOps /\ last'.user = u)
          => /\ last'.executed
             /\ last'.probes = 0
             /\ last'.issued = None
             /\ tokenCtr' = tokenCtr
             /\ link' = link
             /\ users' = users]_vars

\* Witness of C8: an admin who is in no required channel and has no row
\* ran a gated command.
C8_Witness ==
    \E u \in ADMIN_IDS :
        /\ last.op \in GateOps
        /\ last.user = u
        /\ last.executed
        /\ joined[u] # REQUIRED_CHANNELS
        /\ u \notin DOMAIN users

\* C9: stage order.  A gate run issues a token or shows a link only when
\* its membership stage passed; when the membership stage denies, the user's
\* token, its issuance time and link are unchanged and the join prompt is
\* what is shown.
C9_StageOrder ==
    [][\A u \in UserIds \ ADMIN_IDS :
          (last'.op \in GateOps /\ last'.user = u)
          => /\ ( \/ link'[u] # link[u]
                  \/ last'.issued # None
                  \/ last'.shown \in {"link", "link_error"} )
                => CachedMember(users', u, now')
             /\ ~CachedMember(users', u, now')
                => /\ link'[u] = link[u]
                   /\ tokenCtr' = tokenCtr
                   /\ last'.shown = "join"
                   /\ AttrOf(users', u, "verification_token")
                        = AttrOf(users, u, "verification_token")
                   /\ AttrOf(users', u, "token_created_at")
                        = AttrOf(users, u, "token_created_at")]_vars

\* Witness of C9: a gate run probed, found every channel joined and then
\* issued a link.
C9_Witness ==
    /\ last.op \in GateOps
    /\ last.stage = "probed"
    /\ last.shown = "link"
    /\ last.issued # None

\* C10: right after update_user_membership persisted a probe whose
\* aggregate was true, force_join's cache test answers true and force_join
\* returns without a channel query.
C10_FreshAfterPersist ==
    \A u \in UserIds \ ADMIN_IDS :
        ( /\ last.op \in GateOps \cup {"check_membership_callback"}
          /\ last.user = u
          /\ last.stage = "probed" )
        => /\ CachedMember(users, u, now)
           /\ force_join(users, u, {}, {}, {}, now).ret
           /\ force_join(users, u, {}, {}, {}, now).probes = 0

\* Witness of C10: a re-probe of an existing, stale row found every channel
\* joined.
C10_Witness ==
    \E u \in UserIds \ ADMIN_IDS :
        /\ last.op = "check_membership_callback"
        /\ last.user = u
        /\ last.stage = "probed"
        /\ now >= MEMBERSHIP_TTL

\* C11: cache decision.  For a non-admin, a gate run skips the probe and
\* allows exactly when, before the run, a row exists, its is_member is true
\* and its last_checked is less than 600 s old; with no row, a stored
\* negative, or a row 600 s old or older, the channels are queried before
\* the run allows or denies.
C11_CacheDecision ==
    [][\A u \in UserIds \ ADMIN_IDS :
          (last'.op \in GateOps /\ last'.user = u)
          => LET fresh == /\ u \in DOMAIN users
                          /\ users[u]["is_member"] = TRUE
                          /\ now - users[u]["last_checked"] < 600
             IN  /\ fresh => (last'.stage = "cached" /\ last'.probes = 0)
                 /\ ~fresh => ( /\ last'.stage \in {"probed", "denied"}
                                /\ last'.probes >= Cardinality(REQUIRED_CHANNELS) )
                 /\ last'.stage = "cached"
                      => AttrOf(users', u, "last_checked")
                           = users[u]["last_checked"]]_vars

\* Witness of C11: a gate run trusted a positive row written at an earlier
\* clock reading and made no channel query.
C11_Witness ==
    \E u \in UserIds \ ADMIN_IDS :
        /\ last.op \in GateOps
        /\ last.user = u
        /\ last.stage = "cached"
        /\ last.probes = 0
        /\ users[u]["last_checked"] < now

\* C12: refresh persists unconditionally.  After a handler run in which
\* update_user_membership completed for u, u has a row whose is_member is the
\* aggregate of the probe (true only if every channel is joined) and whose
\* last_checked is the time of the run, for a true and for a false aggregate.
C12_RefreshPersists ==
    \A u \in UserIds \ ADMIN_IDS :
        ( /\ last.op \in GateOps \cup {"check_membership_callback"}
          /\ last.user = u
          /\ last.stage \in {"probed", "denied"} )
        => /\ u \in DOMAIN users
           /\ users[u]["is_member"] = (last.stage = "probed")
           /\ users[u]["last_checked"] = now
           /\ users[u]["is_member"] => joined[u] = REQUIRED_CHANNELS
           /\ joined[u] # REQUIRED_CHANNELS => ~users[u]["is_member"]

\* Witness of C12: a probe of a user who has joined every channel came out
\* negative because a query raised, and the negative result was persisted
\* over an earlier row at a later time.
C12_Witness ==
    \E u \in UserIds \ ADMIN_IDS :
        /\ last.op \in GateOps \cup {"check_membership_callback"}
        /\ last.user = u
        /\ last.stage = "denied"
        /\ joined[u] = REQUIRED_CHANNELS
        /\ u \in DOMAIN users
        /\ ~users[u]["is_member"]
        /\ users[u]["last_checked"] = now
        /\ now > 0

\* C14 as stated: when the gate denies on membership, the channels prompted
\* for are exactly the configured channels the user has not joined, and the
\* wrapped operation does not run.
C14_PromptsUnjoined ==
    \A u \in UserIds \ ADMIN_IDS :
        (last.op \in GateOps /\ last.user = u /\ last.shown = "join")
        => /\ last.prompted = REQUIRED_CHANNELS \ joined[u]
           /\ ~last.executed

\* C14 as amended: the channels prompted for are exactly those the probe
\* made for the prompt did not report as joined: the channels the user has
\* not joined and the channels whose query raised.  A user who joined none
\* is prompted for all; the message carries the re-check button and the
\* wrapped operation does not run.
C14_PromptsNotReported ==
    \A u \in UserIds \ ADMIN_IDS :
        (last.op \in GateOps /\ last.user = u /\ last.stage = "denied")
        => /\ last.prompted = (REQUIRED_CHANNELS \ joined[u]) \cup last.failed
           /\ joined[u] = {} => last.prompted = REQUIRED_CHANNELS
           /\ last.shown = "join"
           /\ ~last.executed

\* Witness of C14: the gate denied a user who has joined one channel of two
\* and prompted for the other one only.
C14_Witness ==
    \E u \in UserIds \ ADMIN_IDS :
        /\ last.op \in GateOps
        /\ last.user = u
        /\ last.stage = "denied"
        /\ joined[u] = {1}
        /\ last.prompted = {2}

\* C15 as stated: the re-check button always probes, whatever the cached
\* row, persists the aggregate with the time of the probe, and shows the
\* unlock message (every channel joined) or lists exactly the channels
\* still unjoined.
C15_Recheck ==
    [][\A u \in UserIds \ ADMIN_IDS :
          (last'.op = "check_membership_callback" /\ last'.user = u)
          => /\ last'.probes >= Cardinality(REQUIRED_CHANNELS)
             /\ u \in DOMAIN users'
             /\ users'[u]["is_member"] = (last'.shown = "welcome")
             /\ users'[u]["last_checked"] = now'
             /\ last'.shown \in {"welcome", "join"}
             /\ last'.shown = "welcome" => joined'[u] = REQUIRED_CHANNELS
             /\ last'.shown = "join"
                  => last'.prompted = REQUIRED_CHANNELS \ joined'[u]]_vars

\* C15 as amended: as stated, except that the channels listed are those the
\* follow-up probe did not report as joined: the channels still unjoined and
\* the channels whose query raised.
C15_RecheckNotReported ==
    [][\A u \in UserIds \ ADMIN_IDS :
          (last'.op = "check_membership_callback" /\ last'.user = u)
          => /\ last'.probes >= Cardinality(REQUIRED_CHANNELS)
             /\ u \in DOMAIN users'
             /\ users'[u]["is_member"] = (last'.shown = "welcome")
             /\ users'[u]["last_checked"] = now'
             /\ last'.shown \in {"welcome", "join"}
             /\ last'.shown = "welcome" => joined'[u] = REQUIRED_CHANNELS
             /\ last'.shown = "join"
                  => last'.prompted
                       = (REQUIRED_CHANNELS \ joined'[u]) \cup last'.failed]_vars

\* Witness of C15: after joining one channel of two the user pressed the
\* button; the negative aggregate was persisted and only the other channel
\* was listed.
C15_Witness ==
    \E u \in UserIds \ ADMIN_IDS :
        /\ last.op = "check_membership_callback"
        /\ last.user = u
        /\ joined[u] = {1}
        /\ last.shown = "join"
        /\ last.prompted = {2}
        /\ ~users[u]["is_member"]
        /\ users[u]["last_checked"] = now

\* C13: the prober is one fail-closed pass.  A finished check_user_membership
\* call has made exactly one query per configured channel, in configuration
\* order; a channel counts as joined iff its query returned member,
\* administrator or creator; a query that raised is recorded as not joined
\* with the error marker; the aggregate is true iff every channel counts as
\* joined (it is the aggregate the gate's check_user_membership computes);
\* and no step of the call changes the user table.
C13_ProberOnePass ==
    [][/\ probe' # probe => users' = users
       /\ probe'.pc = "done"
            => /\ probe'.queried = ChannelOrder
               /\ DOMAIN probe'.channels = REQUIRED_CHANNELS
               /\ \A c \in REQUIRED_CHANNELS :
                     /\ probe'.channels[c].is_member
                          = (probe'.answers[c]
                               \in {"member", "administrator", "creator"})
                     /\ probe'.answers[c] = "error"
                          => /\ ~probe'.channels[c].is_member
                             /\ probe'.channels[c].status = "error"
               /\ probe'.is_member_of_all
                    = (\A c \in REQUIRED_CHANNELS :
                          probe'.channels[c].is_member)
               /\ LET member_of == {c \in REQUIRED_CHANNELS :
                                      probe'.answers[c] \in JoinedStatuses}
                      err == {c \in REQUIRED_CHANNELS :
                                      probe'.answers[c] = "error"}
                      r == check_user_membership(member_of, err)
                  IN  /\ r.is_member_of_all = probe'.is_member_of_all
                      /\ \A c \in REQUIRED_CHANNELS :
                            r.channels[c] = probe'.channels[c].is_member]_vars

\* Witness of C13: a finished call whose first query raised and whose
\* second query, made all the same, found the user a member.
C13_Witness ==
    /\ probe.pc = "done"
    /\ probe.answers[1] = "error"
    /\ probe.answers[2] = "member"
    /\ probe.queried = <<1, 2>>
    /\ ~probe.is_member_of_all

\* The loop of the current dispatch run is over: every snapshot position
\* has been processed.
LoopOver == run.pc # "idle" /\ run.i = run.total /\ run.total > 0

\* C16: frozen snapshot.  When the loop of a dispatch run is over, the send
\* attempts made are exactly one per recipient of the job's list, in the
\* list's order, whatever rows were added after the list was taken.
C16_FrozenSnapshot ==
    LoopOver => run.attempts = run.users

\* C17: no abort on a send failure.  When the loop of a dispatch run is
\* over, all N recipients were attempted, and the counts the summary reports
\* are failed = number of sends that raised, succeeded = N minus that.
C17_FailuresCounted ==
    /\ LoopOver => /\ Len(run.attempts) = run.total
                   /\ run.failed = Cardinality(run.raised)
                   /\ run.successful = run.total - Cardinality(run.raised)
                   /\ (run.pc = "done"
                        => /\ run.summary.failed = Cardinality(run.raised)
                           /\ run.summary.successful
                                = run.total - Cardinality(run.raised))

\* An accept (cancel) button of an open prompt is pressed in this step.
Accepted ==
    \E k \in DOMAIN prompts :
       /\ prompts[k].answer = "none"
       /\ prompts'[k].answer = "broadcast_confirm"
       /\ prompts[k].by \in ADMIN_IDS

Cancelled ==
    \E k \in DOMAIN prompts :
       /\ prompts[k].answer = "none"
       /\ prompts'[k].answer = "broadcast_cancel"

C19_CancelDiscards ==
    [][ /\ \A k \in DOMAIN prompts :
              (prompts[k].answer = "none"
                 /\ prompts'[k].answer = "broadcast_cancel")
              => user_data'[prompts[k].by] = NoJob
        /\ ( ( /\ prompts # <<>>
               /\ prompts[Len(prompts)].answer = "broadcast_cancel"
               /\ Len(prompts') = Len(prompts) )
             => ~(run'.pc = "loop" /\ run.pc # "loop") ) ]_vars

\* C20: completion.  Every dispatch run an accept started ends, for every
\* list length N >= 0 and every pattern of send failures, with exactly one
\* final summary (attempted, succeeded, failed, rate) and the job removed
\* from the admin's user_data.
C20_Completion ==
    [][ /\ ( (run'.pc \notin {"idle", "loop"} /\ run'.pc # run.pc)
             => /\ run'.pc = "done"
                /\ run'.summaries = 1
                /\ run'.summary.total = run'.total
                /\ run'.summary.successful + run'.summary.failed
                     = run'.total
                /\ user_data'[run'.by] = NoJob ) ]_vars

\* The number of i in 0..(n-1) that are multiples of d.
Multiples(n, d) == (n + d - 1) \div d

\* C21: progress cadence.  The progress message is edited in the loop only
\* at every 20th recipient or when 5 s have passed; and a run over 45
\* recipients in which the 5 s rule never fired ends with exactly 3 edits
\* of the progress message, the final summary included.
C21_Cadence ==
    /\ run.pc = "loop"
         => run.edits <= Multiples(run.i, PROGRESS_EVERY) + run.timed
    /\ (run.pc = "done" /\ run.total = 45 /\ run.timed = 0)
         => run.edits = 3

\* C22: rate limiting.  Within a dispatch run every send attempt but the
\* first is made after a sleep of 50 ms since the attempt before it, whether
\* that one succeeded or raised.
C22_RateLimit ==
    run.rushed = {}

\* C23: detached handoff.  While a dispatch run an accept started still has
\* recipients to send to, the application handles other interactions: a
\* /broadcast of the same admin can be taken.
C23_DetachedHandoff ==
    (run.pc = "loop" /\ run.i < run.total /\ Len(prompts) < MaxCommands)
      => ENABLED (\E u \in ADMIN_IDS, content \in Contents :
                     \E order \in Orders(DOMAIN users) :
                        broadcast_command(u, content, order, TRUE))

\* A /broadcast of admin u is taken in this step while u's earlier job is
\* still in user_data, its prompt unanswered.
SecondCommand(u) ==
    /\ Len(prompts') = Len(prompts) + 1
    /\ prompts'[Len(prompts')].by = u
    /\ user_data[u] # NoJob
    /\ \E k \in DOMAIN prompts :
          prompts[k].by = u /\ prompts[k].answer = "none"

Range(q) == {q[n] : n \in DOMAIN q}

\* The non-admins of table db whose last_checked is more than 24 hours
\* before t.
StaleAt(db, t) ==
    {u \in (DOMAIN db) \ ADMIN_IDS : t - db[u]["last_checked"] > SWEEP_AGE}

\* C25: sweep coverage.  A run of check_all_memberships whose query returned
\* has, when it is over, probed each non-admin that was stale (last_checked
\* older than 24 hours) when it started, once; at no time has it probed an
\* admin or a user that was not stale at its start; and a probe whose
\* iteration did not raise is followed by the save of its result and of the
\* time to the user's row.
C25_SweepCoverage ==
    /\ []( /\ Range(sweep.probed) \subseteq
                StaleAt(sweep.at_start, sweep.started)
           /\ Len(sweep.probed) = Cardinality(Range(sweep.probed))
           /\ (sweep.pc = "done" /\ sweep.ok)
                => Range(sweep.probed)
                     = StaleAt(sweep.at_start, sweep.started) )
    /\ [][ ( /\ Len(sweep'.probed) = Len(sweep.probed) + 1
             /\ sweep'.faults = sweep.faults )
           => LET u == sweep'.probed[Len(sweep'.probed)]
                  r == sweep'.result[Len(sweep'.result)]
              IN  /\ users'[u]["is_member"] = r
                  /\ users'[u]["last_checked"] = now
                  /\ \A v \in (DOMAIN users) \ {u} : users'[v] = users[v]
         ]_vars

\* Witness of C25: a run is over that found the admin's row stale and
\* skipped it, probed and saved a stale non-admin, and left alone a
\* non-admin checked within 24 hours.
C25_Witness ==
    /\ sweep.pc = "done"
    /\ sweep.selected \cap ADMIN_IDS # {}
    /\ sweep.count > 0
    /\ \E u \in (DOMAIN sweep.at_start) \ ADMIN_IDS :
          u \notin Range(sweep.probed)

\* C26: sweep failure isolation.  An iteration that raises leaves the table
\* as it was; a run whose query returned has, when it is over, called the
\* probe for every non-admin the query selected and saved all of them but
\* those whose iteration raised; and every run that started reaches its
\* end.
C26_SweepIsolation ==
    /\ [][ sweep'.faults \ sweep.faults # {} => users' = users ]_vars
    /\ []( (sweep.pc = "done" /\ sweep.ok)
           => /\ Range(sweep.probed) = sweep.selected \ ADMIN_IDS
              /\ sweep.count
                   = Cardinality(Range(sweep.probed) \ sweep.faults) )
    /\ (sweep.pc = "loop" ~> sweep.pc = "done")

\* Witness of C26: a run is over in which the iteration of one user raised
\* and a user after it was probed and saved.
C26_Witness ==
    /\ sweep.pc = "done"
    /\ \E i, j \in DOMAIN sweep.probed :
          /\ i < j
          /\ sweep.probed[i] \in sweep.faults
          /\ sweep.probed[j] \notin sweep.faults

\* The token and the issuance time the table holds for u (None where the
\* row or the column is missing).
StoredToken(db, u) ==
    [a \in {"verification_token", "token_created_at"} |->
        IF u \in DOMAIN db /\ HasAttr(db[u], a) THEN db[u][a] ELSE None]

\* C27: when the link provider call raises, answers with a non-success
\* status, or the credential is missing, create_verification_link returns
\* no link and no token and leaves the table as it was; a gate that gets
\* as far as the verification stage then shows the try-again-later error,
\* does not run the wrapped operation, issues nothing and leaves the stored
\* token and issuance time of the user as they were.
C27_LinkFailureDegrades ==
    /\ [](\A u \in UserIds \ ADMIN_IDS, api \in Apis \ {"ok"} :
            LET cl == create_verification_link(users, u, api, FreshToken, now)
                g == require_membership(users, u, joined[u], {}, {}, api,
                                        FreshToken, now)
            IN  /\ ~cl.url /\ cl.token = None /\ cl.db = users
                /\ (g.stage \in {"cached", "probed"}
                        /\ ~is_user_verified(g.db, u, now).ret)
                   => /\ g.shown = "link_error"
                      /\ ~g.run
                      /\ g.issued = None
                      /\ StoredToken(g.db, u) = StoredToken(users, u))
    /\ [][last'.shown = "link_error"
            => /\ ~last'.executed
               /\ last'.issued = None
               /\ link' = link /\ tokenCtr' = tokenCtr
               /\ StoredToken(users', last'.user)
                    = StoredToken(users, last'.user)]_vars

\* C27 witness: a gated command of a user who was shown a link before ends
\* in the try-again-later error, and that link's token is still the last one.
C27_Witness ==
    /\ last.op \in {"help_command", "start"}
    /\ last.shown = "link_error"
    /\ ~last.executed
    /\ link[last.user].token # None

\* Instances User.get would return for u if the three verification columns
\* were declared: no token stored, a token of either value, issued at 0 or
\* with no time.
TokenRows ==
    [first_name : {DefaultName}, is_member : {TRUE}, last_checked : {0},
     verification_token : Tokens \cup {None},
     token_created_at : {0, None},
     verified_until : {None}]

\* The tables a failed redemption by u is compared over: the table as it
\* is, the table without a row of u, and the table with each of TokenRows
\* as the row of u.
CauseTables(u) ==
    {users, [v \in (DOMAIN users) \ {u} |-> users[v]]}
        \cup {[v \in (DOMAIN users) \cup {u} |->
                    IF v = u THEN r ELSE users[v]] : r \in TokenRows}

\* C28: a redemption through /start that fails shows one and the same text,
\* whether verify_token found no row, no token, another token or a token
\* past its hour: start over every table of CauseTables and every token
\* at the present clock reading, and every /start step of the program.
C28_UniformDenial ==
    /\ [](\A u \in UserIds, token \in Tokens \cup {ForgedToken} :
            \A db \in CauseTables(u) :
                LET b == start(db, u, [token |-> token, uid |-> u], now)
                IN  b.redeem = "fail"
                        => b.shown = "verify_failed" /\ b.db = db)
    /\ [][(last'.op = "start" /\ last'.redeem = "fail")
            => last'.shown = "verify_failed"]_vars

\* C28 witness: a /start redemption failed for a user who has no row, and
\* over CauseTables the same call also fails on a token that differs and on
\* one that is past its hour.
C28_Witness ==
    /\ last.op = "start"
    /\ last.redeem = "fail"
    /\ last.shown = "verify_failed"
    /\ last.user \notin DOMAIN users
    /\ \E r1, r2 \in TokenRows :
          LET db1 == [v \in {last.user} |-> r1]
              db2 == [v \in {last.user} |-> r2]
          IN  /\ r1.verification_token \notin {last.token, None}
              /\ r2.verification_token = last.token
              /\ r2.token_created_at = 0
              /\ now > TOKEN_EXPIRY
              /\ ~verify_token(db1, last.user, last.token, now).ok
              /\ ~verify_token(db2, last.user, last.token, now).ok

\* What C29 says of user u on table db at time t: both functions return,
\* they agree on the verified flag, an admin is verified with no expiry,
\* and anyone else is verified exactly when verified_until is present and
\* later than t, with verified_until - t remaining and none otherwise.
StatusAsClaimed(db, u, t) ==
    LET s == get_verification_status(db, u, t)
        v == is_user_verified(db, u, t)
        until == AttrOf(db, u, "verified_until")
    IN  /\ ~s.raised /\ ~v.raised
        /\ s.is_verified = v.ret
        /\ u \in ADMIN_IDS => s.is_verified /\ s.time_remaining = None
        /\ u \notin ADMIN_IDS =>
              /\ s.is_verified <=> (until # None /\ t < until)
              /\ s.time_remaining = IF s.is_verified THEN until - t ELSE None

\* C29: get_verification_status and is_user_verified answer as
\* StatusAsClaimed says for every user, admins included; /verify, which
\* asks get_verification_status first, tells an admin that no verification
\* is needed, and changes no record of a user reported verified.
C29_StatusRead ==
    /\ [](\A u \in UserIds : StatusAsClaimed(users, u, now))
    /\ [][last'.op = "verify_command"
            => /\ (last'.user \in ADMIN_IDS
                      => last'.shown = "already_verified")
               /\ (last'.shown = "already_verified" => users' = users)]_vars

\* C29 without the admins: the part of the claim that the code meets.
C29_NonAdmin ==
    /\ [](\A u \in UserIds \ ADMIN_IDS : StatusAsClaimed(users, u, now))
    /\ [][(last'.op = "verify_command" /\ last'.shown = "already_verified")
            => users' = users]_vars

\* C30: a verify_token call that returns True never leaves a user whose
\* verified_until was present with an earlier verified_until (or none).
C30_MonotoneGrant ==
    [][\A u \in UserIds :
          ( /\ last'.redeem = "ok"
            /\ last'.user = u
            /\ AttrOf(users, u, "verified_until") # None )
          => /\ AttrOf(users', u, "verified_until") # None
             /\ AttrOf(users', u, "verified_until")
                  >= AttrOf(users, u, "verified_until")]_vars

\* The case C30 is about never comes up: no verify_token call returns True
\* and no row holds a verified_until.
C30_NoGrant ==
    /\ last.redeem # "ok"
    /\ \A u \in DOMAIN users : AttrOf(users, u, "verified_until") = None

\* The membership columns of the row of u in table db.
MembershipPair(db, u) == <<db[u]["is_member"], db[u]["last_checked"]>>

\* C31: last writer wins without tearing.  Whenever a step gives the row of
\* a user another (is_member, last_checked), or creates the row, the new
\* last_checked is the time of the step; if the step is the save of the
\* periodic run, the row is the one the run waited for and the new
\* is_member is the aggregate of the run's probe; if it is not, the step
\* is a refresh, which leaves the run where it was.  So every pair a reader
\* finds was written whole by the writer that wrote last.
C31_LastWriterWins ==
    [][\A u \in DOMAIN users' :
          (u \notin DOMAIN users
             \/ MembershipPair(users', u) # MembershipPair(users, u))
          => /\ users'[u]["last_checked"] = now
             /\ IF sweep'.count = sweep.count + 1
                THEN /\ u = Head(sweep.todo)
                     /\ users'[u]["is_member"]
                          = sweep'.result[Len(sweep'.result)]
                ELSE sweep'.probed = sweep.probed]_vars

\* Witness of C31: the periodic run waits for the gateway's answer about a
\* user whose row a refresh has written since the run loaded it, and the
\* clock has moved on since that refresh.
C31_Witness ==
    /\ sweep.pc = "loop"
    /\ LET u == Head(sweep.todo)
       IN  /\ users[u]["last_checked"] > sweep.inst["last_checked"]
           /\ now > users[u]["last_checked"]

\* C32: the save of the periodic run changes is_member and last_checked of
\* the row only; every other field of the row keeps the value it had just
\* before the save.
C32_SweepFramed ==
    [][sweep'.count = sweep.count + 1
          => LET u == Head(sweep.todo)
             IN  \A a \in (DOMAIN users[u]) \ {"is_member", "last_checked"} :
                    users'[u][a] = users[u][a]]_vars

\* C37: a periodic run whose query returned has, when it is over, asked for
\* every row of the query without an error and probed every non-admin
\* among them, whatever refreshes ran during its gateway waits.
C37_ConnectionIsolation ==
    (sweep.pc = "done" /\ sweep.ok)
       => /\ ~sweep.aborted
          /\ Range(sweep.probed) = sweep.selected \ ADMIN_IDS

\* C33: an edit of the progress message that raises never takes the place
\* of a send.  Every pass of the dispatch loop attempts a send to the
\* recipient it is at, and counts the recipient as failed only when that
\* send raised.
C33_EditNeverReplacesSend ==
    [][run'.i = run.i + 1
          => /\ run'.attempts = Append(run.attempts, run.users[run.i + 1])
             /\ (run'.failed = run.failed + 1
                   => (run.i + 1) \in run'.raised)
             /\ (run'.failed # run.failed + 1
                   => run'.successful = run.successful + 1)]_vars

\* C34: denial is consistent with the persisted probe.  Whenever force_join
\* denies a user, whatever the gateway's errors during its two probes, the
\* channels it prompts for are at least one and are the channels that the
\* probe whose aggregate was stored found unjoined.
C34_DenialMatchesPersisted ==
    \A u \in UserIds \ ADMIN_IDS :
       \A err1, err2 \in SUBSET REQUIRED_CHANNELS :
          LET fj == force_join(users, u, joined[u], err1, err2, now)
              r1 == check_user_membership(joined[u], err1)
          IN  fj.stage = "denied"
                => /\ fj.prompted # {}
                   /\ fj.prompted
                        = {c \in REQUIRED_CHANNELS : ~r1.channels[c]}

\* C35: a confirm dispatches the job of the prompt it was pressed on.  When
\* the press of the accept button of a prompt starts a dispatch run, the
\* run's recipients are as many as the prompt counted and the content of
\* the job it sends is the content the prompt was prepared with.
C35_ConfirmDispatchesPrompt ==
    [][\A k \in DOMAIN prompts :
          ( /\ prompts[k].answer = "none"
            /\ prompts'[k].answer = "broadcast_confirm"
            /\ run'.pc = "loop" )
          => /\ run'.total = prompts[k].count
             /\ user_data[run'.by].content = prompts[k].content]_vars

\* C36: content is fixed per run.  Every send of a send_broadcast task
\* carries the content that user_data held when the admin pressed Confirm.
C36_ContentFixed ==
    \A j \in DOMAIN tasks :
       \A n \in DOMAIN tasks[j].attempts :
          tasks[j].attempts[n].content = tasks[j].confirmed

\* C38: only admins dispatch.  No user outside the admin set ever holds a
\* job; a step in which a non-admin sends /broadcast or presses a button of
\* a prompt, or an admin without a job presses one, starts no dispatch run
\* and makes no send; a dispatch run starts only with the press of the
\* accept button by an admin who holds a job, and every send is made by a
\* run such an admin started.
C38_OnlyAdminsDispatch ==
    /\ [](/\ \A u \in UserIds \ ADMIN_IDS : user_data[u] = NoJob
          /\ run.pc # "idle" => run.by \in ADMIN_IDS)
    /\ [][/\ \A k \in DOMAIN prompts :
                ( /\ prompts[k].answer = "none"
                  /\ prompts'[k].answer # "none"
                  /\ \/ prompts'[k].pressed_by \notin ADMIN_IDS
                     \/ user_data[prompts'[k].pressed_by] = NoJob )
                => run' = run
          /\ (run'.pc = "loop" /\ run.pc # "loop")
                => \E k \in DOMAIN prompts :
                      /\ prompts[k].answer = "none"
                      /\ prompts'[k].answer = "broadcast_confirm"
                      /\ prompts'[k].pressed_by = run'.by
                      /\ run'.by \in ADMIN_IDS
                      /\ user_data[run'.by] # NoJob
          /\ Len(run'.attempts) > Len(run.attempts)
                => (run.pc = "loop" /\ run.by \in ADMIN_IDS)]_vars

\* Witness of C38: a user who is no admin has pressed the accept button of
\* an admin's prompt for a list with recipients, and no send was made.
C38_Witness ==
    \E k \in DOMAIN prompts :
       /\ prompts[k].answer = "broadcast_confirm"
       /\ prompts[k].pressed_by \notin ADMIN_IDS
       /\ prompts[k].count > 0
       /\ user_data[prompts[k].by] # NoJob
       /\ run = NoRun

\* C39: tokens are scoped to their user.  A /start of user b that carries
\* the token issued to another user a, with a or b named in the link, is
\* never a successful redemption, leaves the row of a as it was and does
\* not make b verified: in every /start step of the program, and for start
\* applied to every table in which a holds that token and b holds another
\* token or none.
C39_TokenScoped ==
    /\ [](\A a, b \in UserIds :
            a # b =>
              \A ra, rb \in TokenRows, uid \in {a, b} :
                 ( /\ ra.verification_token # None
                   /\ rb.verification_token # ra.verification_token )
                 => LET db == [v \in {a, b} |-> IF v = a THEN ra ELSE rb]
                        s == start(db, b, [token |-> ra.verification_token,
                                           uid |-> uid], now)
                    IN  /\ s.redeem # "ok"
                        /\ s.db[a] = db[a]
                        /\ ~is_user_verified(s.db, b, now).ret)
    /\ [][\A a \in UserIds :
            ( /\ last'.op = "start"
              /\ last'.user # a
              /\ link[a].token # None
              /\ \/ last'.token = link[a].token
                 \/ last'.shown = "other_user" )
            => /\ last'.redeem # "ok"
               /\ a \in DOMAIN users
                    => (a \in DOMAIN users' /\ users'[a] = users[a])
               /\ link'[a] = link[a]
               /\ ~is_user_verified(users', last'.user, now').ret]_vars

\* Witness of C39: a user sent /start with the token of the link another
\* user was shown, under the sender's own id, and the redemption failed.
C39_Witness ==
    \E a \in UserIds :
       /\ last.op = "start"
       /\ last.user # a
       /\ link[a].token # None
       /\ last.token = link[a].token
       /\ last.redeem = "fail"

\* C40: issue/redeem round trip.  Right after create_verification_link has
\* returned a token for a user, verify_token for that user and token
\* succeeds on the table as it then is, and the user is verified after it.
C40_RoundTrip ==
    [][last'.issued # None
          => LET v == verify_token(users', last'.user, last'.issued, now')
             IN  /\ v.ok
                 /\ is_user_verified(v.db, last'.user, now').ret]_vars
====
